---- MODULE Spec2Model ----
(***************************************************************************)
(* Tendermint light client of ibc-rs (ics07_tendermint ClientState): the   *)
(* header update flow, the misbehaviour flow, upgrade, verify_height and   *)
(* the proof-verification wrappers, and the ics04 recv_packet handler, as  *)
(* a state machine over one client, its stored consensus states, the host  *)
(* time and the host's channel store.                                      *)
(*                                                                         *)
(* A handler is a pure function of (reader, message); an action evaluates  *)
(* the whole handler and leaves its outcome in `res`; the host then either *)
(* commits the outcome (HostCommit) or drops it (HostDiscard).             *)
(*                                                                         *)
(* Option<T> is modelled as a set with at most one element: None == {},    *)
(* Some(x) == {x}.                                                         *)
(***************************************************************************)
EXTENDS Integers, Sequences, FiniteSets, TLC

VARIABLES
    client_state,      \* the stored ClientState of the client
    consensus_states,  \* the host store: Height -> Option<TmConsensusState>
    host_timestamp,    \* ClientReader::host_timestamp()
    res,               \* outcome of the handler call in progress (op = "none": idle)
    chan_store,        \* the host's ics03/ics04 store read through ChannelReader
    applied            \* history: the messages whose packet write the host applied

vars == <<client_state, consensus_states, host_timestamp, res, chan_store, applied>>

----------------------------------------------------------------------------
(* Bounds of the model *)

MaxHeight == 3
MaxTime == 2
MaxSeq == 2
MbMaxTime == 2
MbMaxTrusted == 2

\* Revision numbers below, equal to and above the client's (InitChainId.version)
Revisions == {0, 1, 2}
RevisionHeights == 1..MaxHeight
Times == 0..MaxTime
\* Commitment roots are opaque and only compared for equality
Roots == {1, 2}

----------------------------------------------------------------------------
(* Option and Result *)

None == {}
Some(x) == {x}
IsSome(o) == o # {}
Unwrap(o) == CHOOSE x \in o : TRUE

----------------------------------------------------------------------------
(* Height: (revision_number, revision_height), ordered lexicographically *)

Height(rn, rh) == [revision_number |-> rn, revision_height |-> rh]

Heights == [revision_number : Revisions, revision_height : RevisionHeights]

\* Height::new: a zero revision_height is rejected
HeightNew(rn, rh) == IF rh = 0 THEN None ELSE Some(Height(rn, rh))

\* Ord for Height: revision_number first, then revision_height
HeightCmp(a, b) ==
    IF a.revision_number < b.revision_number THEN "Less"
    ELSE IF a.revision_number > b.revision_number THEN "Greater"
    ELSE IF a.revision_height < b.revision_height THEN "Less"
    ELSE IF a.revision_height > b.revision_height THEN "Greater"
    ELSE "Equal"

HeightLT(a, b) == HeightCmp(a, b) = "Less"
HeightLE(a, b) == HeightCmp(a, b) # "Greater"

----------------------------------------------------------------------------
(* ChainId, headers, consensus states *)

ChainId(name, version) == [name |-> name, version |-> version]

\* The chain the client tracks, and the height it is created at
InitChainId == ChainId("ibc", 1)
InitHeight == Height(InitChainId.version, 1)

\* Header: the fields of the Tendermint header the client reads.
\*   chain_id, height, time, app_hash, next_validators_hash: signed_header.header
\*   block_hash: signed_header.commit.block_id.hash
\*   trusted_height, trusted_val_hash (hash of trusted_validator_set)
\*   sig_ok: whether the commit's signatures and voting power satisfy the
\*           verifier (the outcome of its cryptographic predicates)
Headers ==
    [chain_id : {ChainId("ibc", v) : v \in Revisions},
     revision_height : RevisionHeights,
     trusted_height : {Height(InitChainId.version, rh) : rh \in RevisionHeights},
     time : Times,
     app_hash : Roots,
     next_validators_hash : {1},
     block_hash : {1},
     trusted_val_hash : {1},
     sig_ok : BOOLEAN]

\* Header::height(): the revision comes from the header's chain id
HeaderHeight(header) ==
    Height(header.chain_id.version, header.revision_height)

\* TmConsensusState::from(header)
TmConsensusStateFrom(header) ==
    [timestamp |-> header.time,
     root |-> header.app_hash,
     next_validators_hash |-> header.next_validators_hash]

----------------------------------------------------------------------------
(* ClientState *)

\* TrustThreshold -> the verifier's fraction: defined for fractions in [1/3, 1)
TrustThresholdConvertible(t) ==
    /\ t.denominator > 0
    /\ 3 * t.numerator >= t.denominator
    /\ t.numerator < t.denominator

Ok(v) == [ok |-> TRUE, err |-> "", val |-> Some(v)]
Err(e) == [ok |-> FALSE, err |-> e, val |-> None]

\* with_header taking the height from the wrong field of the header
with_header_from_trusted(self, h) ==
    Ok([self EXCEPT !.latest_height = h.trusted_height])

\* with_header dropping the frozen height
with_header_unfreezing(self, h) ==
    LET nh == HeightNew(self.latest_height.revision_number, h.revision_height)
    IN  IF nh = None THEN Err("InvalidHeaderHeight")
        ELSE Ok([self EXCEPT !.latest_height = Unwrap(nh), !.frozen_height = None])

\* ClientState::with_header: latest_height becomes
\* (self.latest_height.revision_number, header revision height)
with_header(self, h) ==
    LET nh == HeightNew(self.latest_height.revision_number, h.revision_height)
    IN  IF nh = None THEN Err("InvalidHeaderHeight")
        ELSE Ok([self EXCEPT !.latest_height = Unwrap(nh)])

\* with_frozen_height that also moves latest_height to the frozen height
with_frozen_height_moving_latest(self, h) ==
    [self EXCEPT !.frozen_height = Some(h), !.latest_height = h]

\* ClientState::with_frozen_height
with_frozen_height(self, h) == [self EXCEPT !.frozen_height = Some(h)]

\* ClientState::as_light_client_options
as_light_client_options(self) ==
    IF ~TrustThresholdConvertible(self.trust_level)
    THEN Err("InvalidTrustThreshold")
    ELSE Ok([trust_threshold |-> self.trust_level,
             trusting_period |-> self.trusting_period,
             clock_drift |-> self.max_clock_drift])

\* ClientState::verify_height looking at the frozen height before the
\* latest height
HeightCheck_frozen_first(self, height) ==
    IF IsSome(self.frozen_height) /\ HeightLE(Unwrap(self.frozen_height), height)
    THEN [kind |-> "ClientFrozen", frozen_height |-> Unwrap(self.frozen_height), target_height |-> height]
    ELSE IF HeightLT(self.latest_height, height)
    THEN [kind |-> "InsufficientHeight", latest_height |-> self.latest_height, target_height |-> height]
    ELSE [kind |-> "Ok"]

\* ClientState::verify_height, with the payload of its errors
HeightCheck(self, height) ==
    IF HeightLT(self.latest_height, height)
    THEN [kind |-> "InsufficientHeight", latest_height |-> self.latest_height, target_height |-> height]
    ELSE IF IsSome(self.frozen_height) /\ HeightLE(Unwrap(self.frozen_height), height)
    THEN [kind |-> "ClientFrozen", frozen_height |-> Unwrap(self.frozen_height), target_height |-> height]
    ELSE [kind |-> "Ok"]

\* verify_height with a strict comparison against the frozen height
verify_height_strict(self, height) ==
    IF HeightLT(self.latest_height, height) THEN "InsufficientHeight"
    ELSE IF IsSome(self.frozen_height) /\ HeightLT(Unwrap(self.frozen_height), height)
         THEN "ClientFrozen"
    ELSE "Ok"

\* The error kind of ClientState::verify_height ("Ok" when it passes)
verify_height(self, height) == HeightCheck(self, height).kind

\* ClientState::upgrade leaving the trust parameters of the old chain
upgrade_keeping_trust(self, upgrade_height, upgrade_options, chain_id) ==
    [self EXCEPT !.allow_update = [after_expiry |-> FALSE,
                                   after_misbehaviour |-> FALSE],
                 !.frozen_height = None,
                 !.latest_height = upgrade_height,
                 !.unbonding_period = upgrade_options.unbonding_period,
                 !.chain_id = chain_id]

\* ClientState::upgrade: the custom fields are reset to their zero values,
\* frozen_height included, and the upgraded height, unbonding period and
\* chain id are adopted
upgrade(self, upgrade_height, upgrade_options, chain_id) ==
    [self EXCEPT !.trusting_period = 0,
                 !.trust_level = [numerator |-> 0, denominator |-> 0],
                 !.allow_update = [after_expiry |-> FALSE,
                                   after_misbehaviour |-> FALSE],
                 !.frozen_height = None,
                 !.max_clock_drift = 0,
                 !.latest_height = upgrade_height,
                 !.unbonding_period = upgrade_options.unbonding_period,
                 !.chain_id = chain_id]

\* tendermint::chain::id::MAX_LENGTH
MaxChainIdLen == 50

\* chain_id.as_str().len(): a chain id reads "<name>-<version>", the version
\* in decimal digits
ChainIdLen(chain_id) ==
    Len(chain_id.name) + 1 + (IF chain_id.version < 10 THEN 1 ELSE IF chain_id.version < 100 THEN 2 ELSE 3)

\* TrustThreshold::ZERO
TrustThresholdZERO == [numerator |-> 0, denominator |-> 0]

\* str::trim: surrounding whitespace removed
trim(key) ==
    CASE key \in {"", " ", "  "} -> ""
      [] key = " upgrade " -> "upgrade"
      [] OTHER -> key

\* ClientState::new checking the latest height before the clock drift
new_height_before_drift(chain_id, trust_level, trusting_period, unbonding_period, max_clock_drift, latest_height, proof_specs, upgrade_path, allow_update, frozen_height) ==
    IF ChainIdLen(chain_id) > MaxChainIdLen THEN Err("ChainIdTooLong")
    ELSE IF trust_level = TrustThresholdZERO THEN Err("InvalidTrustThreshold")
    ELSE IF ~TrustThresholdConvertible(trust_level) THEN Err("InvalidTendermintTrustThreshold")
    ELSE IF trusting_period <= 0 THEN Err("InvalidTrustThreshold")
    ELSE IF unbonding_period <= 0 THEN Err("InvalidTrustThreshold")
    ELSE IF trusting_period >= unbonding_period THEN Err("InvalidTrustThreshold")
    ELSE IF latest_height.revision_number # chain_id.version THEN Err("InvalidLatestHeight")
    ELSE IF max_clock_drift <= 0 THEN Err("InvalidMaxClockDrift")
    ELSE IF proof_specs = <<>> THEN Err("Validation")
    ELSE IF \E idx \in DOMAIN upgrade_path : trim(upgrade_path[idx]) = "" THEN Err("Validation")
    ELSE Ok([chain_id |-> chain_id,
             trust_level |-> trust_level,
             trusting_period |-> trusting_period,
             unbonding_period |-> unbonding_period,
             max_clock_drift |-> max_clock_drift,
             latest_height |-> latest_height,
             proof_specs |-> proof_specs,
             upgrade_path |-> upgrade_path,
             allow_update |-> allow_update,
             frozen_height |-> frozen_height])

\* ClientState::new accepting a trusting period equal to the unbonding period
new_equal_periods(chain_id, trust_level, trusting_period, unbonding_period, max_clock_drift, latest_height, proof_specs, upgrade_path, allow_update, frozen_height) ==
    IF ChainIdLen(chain_id) > MaxChainIdLen THEN Err("ChainIdTooLong")
    ELSE IF trust_level = TrustThresholdZERO THEN Err("InvalidTrustThreshold")
    ELSE IF ~TrustThresholdConvertible(trust_level) THEN Err("InvalidTendermintTrustThreshold")
    ELSE IF trusting_period <= 0 THEN Err("InvalidTrustThreshold")
    ELSE IF unbonding_period <= 0 THEN Err("InvalidTrustThreshold")
    ELSE IF trusting_period > unbonding_period THEN Err("InvalidTrustThreshold")
    ELSE IF max_clock_drift <= 0 THEN Err("InvalidMaxClockDrift")
    ELSE IF latest_height.revision_number # chain_id.version THEN Err("InvalidLatestHeight")
    ELSE IF proof_specs = <<>> THEN Err("Validation")
    ELSE IF \E idx \in DOMAIN upgrade_path : trim(upgrade_path[idx]) = "" THEN Err("Validation")
    ELSE Ok([chain_id |-> chain_id,
             trust_level |-> trust_level,
             trusting_period |-> trusting_period,
             unbonding_period |-> unbonding_period,
             max_clock_drift |-> max_clock_drift,
             latest_height |-> latest_height,
             proof_specs |-> proof_specs,
             upgrade_path |-> upgrade_path,
             allow_update |-> allow_update,
             frozen_height |-> frozen_height])

\* ClientState::new: the checks in the order of the source, then the state
\* built from the arguments
new(chain_id, trust_level, trusting_period, unbonding_period, max_clock_drift, latest_height, proof_specs, upgrade_path, allow_update, frozen_height) ==
    IF ChainIdLen(chain_id) > MaxChainIdLen THEN Err("ChainIdTooLong")
    ELSE IF trust_level = TrustThresholdZERO THEN Err("InvalidTrustThreshold")
    ELSE IF ~TrustThresholdConvertible(trust_level) THEN Err("InvalidTendermintTrustThreshold")
    ELSE IF trusting_period <= 0 THEN Err("InvalidTrustThreshold")
    ELSE IF unbonding_period <= 0 THEN Err("InvalidTrustThreshold")
    ELSE IF trusting_period >= unbonding_period THEN Err("InvalidTrustThreshold")
    ELSE IF max_clock_drift <= 0 THEN Err("InvalidMaxClockDrift")
    ELSE IF latest_height.revision_number # chain_id.version THEN Err("InvalidLatestHeight")
    ELSE IF proof_specs = <<>> THEN Err("Validation")
    ELSE IF \E idx \in DOMAIN upgrade_path : trim(upgrade_path[idx]) = "" THEN Err("Validation")
    ELSE Ok([chain_id |-> chain_id,
             trust_level |-> trust_level,
             trusting_period |-> trusting_period,
             unbonding_period |-> unbonding_period,
             max_clock_drift |-> max_clock_drift,
             latest_height |-> latest_height,
             proof_specs |-> proof_specs,
             upgrade_path |-> upgrade_path,
             allow_update |-> allow_update,
             frozen_height |-> frozen_height])

\* ChainId::to_string and ChainId::from_string: the identifier reads
\* "<name>-<version>", and the version is parsed back from its last part
ChainId_to_string(chain_id) == <<chain_id.name, "-", chain_id.version>>
ChainId_from_string(text) == ChainId(text[1], text[3])

\* Raw (protobuf) forms of a height and a duration
RawHeight(rn, rh) == [revision_number |-> rn, revision_height |-> rh]
RawDuration_from(duration) == [seconds |-> duration, nanos |-> 0]

\* Height::try_from(RawHeight): a revision height of zero is no height
Height_try_from(raw_height) ==
    IF raw_height.revision_height = 0 THEN Err("InvalidHeight")
    ELSE Ok(Height(raw_height.revision_number, raw_height.revision_height))

\* Duration::try_from(RawDuration): a negative duration is refused
Duration_try_from(raw_duration) ==
    IF raw_duration.seconds < 0 \/ raw_duration.nanos < 0 THEN Err("NegativeDuration")
    ELSE Ok(raw_duration.seconds)

\* TrustThreshold::try_from(Fraction): a fraction in [0, 1), or 0/0
TrustThreshold_try_from(fraction) ==
    IF \/ fraction.numerator > fraction.denominator
       \/ (fraction.denominator = 0 /\ fraction.numerator # 0)
       \/ (fraction.numerator = fraction.denominator /\ fraction.numerator # 0)
    THEN Err("InvalidTrustThreshold")
    ELSE Ok([numerator |-> fraction.numerator, denominator |-> fraction.denominator])

\* From<ClientState> for RawTmClientState
RawTmClientState_from(value) ==
    [chain_id |-> ChainId_to_string(value.chain_id),
     trust_level |-> Some([numerator |-> value.trust_level.numerator, denominator |-> value.trust_level.denominator]),
     trusting_period |-> Some(RawDuration_from(value.trusting_period)),
     unbonding_period |-> Some(RawDuration_from(value.unbonding_period)),
     max_clock_drift |-> Some(RawDuration_from(value.max_clock_drift)),
     frozen_height |->
         Some(IF IsSome(value.frozen_height)
              THEN RawHeight(Unwrap(value.frozen_height).revision_number, Unwrap(value.frozen_height).revision_height)
              ELSE RawHeight(0, 0)),
     latest_height |-> Some(RawHeight(value.latest_height.revision_number, value.latest_height.revision_height)),
     proof_specs |-> value.proof_specs,
     upgrade_path |-> value.upgrade_path,
     allow_update_after_expiry |-> value.allow_update.after_expiry,
     allow_update_after_misbehaviour |-> value.allow_update.after_misbehaviour]

\* The frozen height of a raw client state: an absent or invalid (zero) raw
\* height is "not frozen"
RawFrozenHeight(raw) ==
    IF IsSome(raw.frozen_height) /\ Height_try_from(Unwrap(raw.frozen_height)).ok
    THEN Height_try_from(Unwrap(raw.frozen_height)).val
    ELSE None

\* TryFrom<RawTmClientState> for ClientState keeping a raw zero frozen height
ClientState_try_from_keeping_zero(raw) ==
    IF raw.trust_level = None THEN Err("MissingTrustingPeriod")
    ELSE IF ~TrustThreshold_try_from(Unwrap(raw.trust_level)).ok THEN Err("InvalidTrustThreshold")
    ELSE IF raw.trusting_period = None THEN Err("MissingTrustingPeriod")
    ELSE IF ~Duration_try_from(Unwrap(raw.trusting_period)).ok THEN Err("MissingTrustingPeriod")
    ELSE IF raw.unbonding_period = None THEN Err("MissingUnbondingPeriod")
    ELSE IF ~Duration_try_from(Unwrap(raw.unbonding_period)).ok THEN Err("MissingUnbondingPeriod")
    ELSE IF raw.max_clock_drift = None THEN Err("NegativeMaxClockDrift")
    ELSE IF ~Duration_try_from(Unwrap(raw.max_clock_drift)).ok THEN Err("NegativeMaxClockDrift")
    ELSE IF raw.latest_height = None THEN Err("MissingLatestHeight")
    ELSE IF ~Height_try_from(Unwrap(raw.latest_height)).ok THEN Err("MissingLatestHeight")
    ELSE new(ChainId_from_string(raw.chain_id),
             Unwrap(TrustThreshold_try_from(Unwrap(raw.trust_level)).val),
             Unwrap(Duration_try_from(Unwrap(raw.trusting_period)).val),
             Unwrap(Duration_try_from(Unwrap(raw.unbonding_period)).val),
             Unwrap(Duration_try_from(Unwrap(raw.max_clock_drift)).val),
             Unwrap(Height_try_from(Unwrap(raw.latest_height)).val),
             raw.proof_specs,
             raw.upgrade_path,
             [after_expiry |-> raw.allow_update_after_expiry,
              after_misbehaviour |-> raw.allow_update_after_misbehaviour],
             {Height(h.revision_number, h.revision_height) : h \in raw.frozen_height})

\* TryFrom<RawTmClientState> for ClientState
ClientState_try_from(raw) ==
    IF raw.trust_level = None THEN Err("MissingTrustingPeriod")
    ELSE IF ~TrustThreshold_try_from(Unwrap(raw.trust_level)).ok THEN Err("InvalidTrustThreshold")
    ELSE IF raw.trusting_period = None THEN Err("MissingTrustingPeriod")
    ELSE IF ~Duration_try_from(Unwrap(raw.trusting_period)).ok THEN Err("MissingTrustingPeriod")
    ELSE IF raw.unbonding_period = None THEN Err("MissingUnbondingPeriod")
    ELSE IF ~Duration_try_from(Unwrap(raw.unbonding_period)).ok THEN Err("MissingUnbondingPeriod")
    ELSE IF raw.max_clock_drift = None THEN Err("NegativeMaxClockDrift")
    ELSE IF ~Duration_try_from(Unwrap(raw.max_clock_drift)).ok THEN Err("NegativeMaxClockDrift")
    ELSE IF raw.latest_height = None THEN Err("MissingLatestHeight")
    ELSE IF ~Height_try_from(Unwrap(raw.latest_height)).ok THEN Err("MissingLatestHeight")
    ELSE new(ChainId_from_string(raw.chain_id),
             Unwrap(TrustThreshold_try_from(Unwrap(raw.trust_level)).val),
             Unwrap(Duration_try_from(Unwrap(raw.trusting_period)).val),
             Unwrap(Duration_try_from(Unwrap(raw.unbonding_period)).val),
             Unwrap(Duration_try_from(Unwrap(raw.max_clock_drift)).val),
             Unwrap(Height_try_from(Unwrap(raw.latest_height)).val),
             raw.proof_specs,
             raw.upgrade_path,
             [after_expiry |-> raw.allow_update_after_expiry,
              after_misbehaviour |-> raw.allow_update_after_misbehaviour],
             RawFrozenHeight(raw))

\* TryFrom<Vec<u8>> for CommitmentProofBytes
CommitmentProofBytes_try_from(bytes) ==
    IF bytes = <<>> THEN Err("EmptyMerkleProof") ELSE Ok([bytes |-> bytes])

\* prost::Message::encode of a RawMerkleProof: each proof is written as the
\* field tag 10, its length, and its bytes
RECURSIVE RawMerkleProof_encode(_)
RawMerkleProof_encode(proofs) ==
    IF proofs = <<>> THEN <<>>
    ELSE <<10, Len(Head(proofs))>> \o Head(proofs) \o RawMerkleProof_encode(Tail(proofs))

\* TryFrom<RawMerkleProof> for CommitmentProofBytes
CommitmentProofBytes_try_from_raw(proof) ==
    CommitmentProofBytes_try_from(RawMerkleProof_encode(proof.proofs))

\* TryFrom<Vec<u8>> for CommitmentPrefix
CommitmentPrefix_try_from(bytes) ==
    IF bytes = <<>> THEN Err("EmptyCommitmentPrefix") ELSE Ok([bytes |-> bytes])

\* CommitmentPrefix::default(), from derive(Default): the default Vec<u8>
CommitmentPrefix_default == [bytes |-> <<>>]

\* apply_prefix: the Merkle path of a store path under the counterparty prefix
apply_prefix(prefix, path) == <<prefix, path>>

\* A commitment proof, by what the ics23 verification of it establishes: it
\* decodes or not, and it commits one value at one Merkle path under one root
ProofOf(decodable, root, merkle_path, value) ==
    [decodable |-> decodable, root |-> root,
     merkle_path |-> merkle_path, value |-> value]

\* verify_membership (free function)
verify_membership(self, prefix, proof, root, path, value) ==
    LET merkle_path == apply_prefix(prefix, path)
    IN  IF ~proof.decodable THEN "InvalidCommitmentProof"
        ELSE IF ~(/\ proof.root = root
                  /\ proof.merkle_path = merkle_path
                  /\ proof.value = value)
        THEN "Ics23Verification"
        ELSE "Ok"

\* ConnectionsPath(connection_id)
ConnectionsPath(connection_id) == <<"connections", connection_id>>

\* Protobuf encoding of a value (injective)
encode_vec(x) == <<"bytes", x>>

\* ClientState::verify_connection_state
verify_connection_state(self, height, prefix, proof, root, connection_id, expected_connection_end) ==
    IF verify_height(self, height) # "Ok" THEN verify_height(self, height)
    ELSE verify_membership(self, prefix, proof, root,
                           ConnectionsPath(connection_id),
                           encode_vec(expected_connection_end))

----------------------------------------------------------------------------
(* ClientReader: the host's view handed to a handler.                      *)
(* ctx = [consensus_states, host_timestamp, fault]; fault = "consensus_state" *)
(* makes the backend fail every consensus-state lookup of the call.        *)

Faults == {"none", "consensus_state"}

Ctx(fault) ==
    [consensus_states |-> consensus_states,
     host_timestamp |-> host_timestamp,
     fault |-> fault]

\* ClientReader::consensus_state(client_id, height)
CtxConsensusState(ctx, height) ==
    IF ctx.fault = "consensus_state" THEN Err("Other")
    ELSE IF ctx.consensus_states[height] = None THEN Err("ConsensusStateNotFound")
    ELSE Ok(Unwrap(ctx.consensus_states[height]))

\* maybe_consensus_state taking every reader error for "not found"
maybe_consensus_state_swallowing(ctx, height) ==
    LET r == CtxConsensusState(ctx, height)
    IN  IF r.ok THEN [ok |-> TRUE, err |-> "", val |-> r.val]
        ELSE [ok |-> TRUE, err |-> "", val |-> None]

\* maybe_consensus_state: not-found becomes Ok(None), other errors stay errors
maybe_consensus_state(ctx, height) ==
    LET r == CtxConsensusState(ctx, height)
    IN  IF r.ok THEN [ok |-> TRUE, err |-> "", val |-> r.val]
        ELSE IF r.err = "ConsensusStateNotFound"
             THEN [ok |-> TRUE, err |-> "", val |-> None]
        ELSE [ok |-> FALSE, err |-> r.err, val |-> None]

StoredHeights(ctx) == {h \in DOMAIN ctx.consensus_states : ctx.consensus_states[h] # None}

\* ClientReader::next_consensus_state: the state at the lowest stored height above `height`
CtxNextConsensusState(ctx, height) ==
    LET above == {h \in StoredHeights(ctx) : HeightLT(height, h)}
    IN  IF above = {} THEN None
        ELSE ctx.consensus_states[CHOOSE h \in above : \A g \in above : HeightLE(h, g)]

\* ClientReader::prev_consensus_state: the state at the highest stored height below `height`
CtxPrevConsensusState(ctx, height) ==
    LET below == {h \in StoredHeights(ctx) : HeightLT(h, height)}
    IN  IF below = {} THEN None
        ELSE ctx.consensus_states[CHOOSE h \in below : \A g \in below : HeightLE(g, h)]

----------------------------------------------------------------------------
(* The light-client verifier (ProdVerifier)                                *)

\* TrustedBlockState built from the trusted consensus state
TrustedBlockState(self, header, trusted_consensus_state) ==
    [chain_id |-> self.chain_id,
     header_time |-> trusted_consensus_state.timestamp,
     height |-> header.trusted_height.revision_height,
     next_validators_hash |-> trusted_consensus_state.next_validators_hash]

\* UntrustedBlockState: the signed header and its validator set
UntrustedBlockState(header) ==
    [time |-> header.time,
     height |-> header.revision_height,
     sig_ok |-> header.sig_ok]

\* Verifier::validate_against_trusted: trusting period, BFT time and height
ValidateAgainstTrusted(untrusted, trusted, options, now) ==
    IF ~(trusted.header_time + options.trusting_period > now) THEN "NotWithinTrustPeriod"
    ELSE IF ~(untrusted.time > trusted.header_time) THEN "NonMonotonicBftTime"
    ELSE IF ~(untrusted.height > trusted.height) THEN "NonIncreasingHeight"
    ELSE "Success"

\* Verifier::verify_commit_against_trusted: signatures and voting power
VerifyCommitAgainstTrusted(untrusted, trusted, options) ==
    IF untrusted.sig_ok THEN "Success" ELSE "InvalidCommit"

\* Verifier::verify
Verify(untrusted, trusted, options, now) ==
    LET v == ValidateAgainstTrusted(untrusted, trusted, options, now)
    IN  IF v # "Success" THEN v
        ELSE IF ~(untrusted.time < now + options.clock_drift) THEN "HeaderFromTheFuture"
        ELSE VerifyCommitAgainstTrusted(untrusted, trusted, options)

----------------------------------------------------------------------------
(* Handler outcomes: Result<UpdatedState, ClientError> with the reader and *)
(* verifier calls made, in order                                           *)

Updated(cs, cons, trace) ==
    [ok |-> TRUE, err |-> "", client_state |-> Some(cs),
     consensus_state |-> Some(cons), trace |-> trace]

Failed(e, trace) ==
    [ok |-> FALSE, err |-> e, client_state |-> None,
     consensus_state |-> None, trace |-> trace]

\* Monotonicity check against the next stored consensus state (cs-new, cs-next, cs-latest)
HeaderTimestampTooHigh(self, ctx, header) ==
    /\ HeightLT(HeaderHeight(header), self.latest_height)
    /\ LET maybe_next_cs == CtxNextConsensusState(ctx, HeaderHeight(header))
       IN  /\ IsSome(maybe_next_cs)
           /\ header.time > Unwrap(maybe_next_cs).timestamp

\* The previous-state check rejecting a header as old as its predecessor
HeaderTimestampTooLow_inclusive(self, ctx, header) ==
    /\ HeightLT(header.trusted_height, HeaderHeight(header))
    /\ LET maybe_prev_cs == CtxPrevConsensusState(ctx, HeaderHeight(header))
       IN  /\ IsSome(maybe_prev_cs)
           /\ header.time <= Unwrap(maybe_prev_cs).timestamp

\* Monotonicity check against the previous stored consensus state (cs-trusted, cs-prev, cs-new)
HeaderTimestampTooLow(self, ctx, header) ==
    /\ HeightLT(header.trusted_height, HeaderHeight(header))
    /\ LET maybe_prev_cs == CtxPrevConsensusState(ctx, HeaderHeight(header))
       IN  /\ IsSome(maybe_prev_cs)
           /\ header.time < Unwrap(maybe_prev_cs).timestamp

\* The reader calls of the two monotonicity checks
MonotonicityTrace(self, header) ==
    (IF HeightLT(HeaderHeight(header), self.latest_height)
     THEN <<"next_consensus_state">> ELSE <<>>)

\* The revision check reading the trusted height's revision
RevisionMismatch_of_trusted(self, header) ==
    header.trusted_height.revision_number # self.chain_id.version

\* The revision check: the header's revision against the chain id's version
RevisionMismatch(self, header) ==
    HeaderHeight(header).revision_number # self.chain_id.version

\* A replayed header advancing the client to the header's height
AlreadyInstalled_advancing(self, header, cs, trace) ==
    Updated([self EXCEPT !.latest_height = HeaderHeight(header)], cs, trace)

\* A replayed header treated as an error
AlreadyInstalled_rejected(self, header, cs, trace) == Failed("HeaderAlreadyInstalled", trace)

\* The consensus state installed at the header's height matches the header:
\* verification is skipped and the input client state is returned with it
AlreadyInstalled(self, header, cs, trace) == Updated(self, cs, trace)

\* The conflict branch returning the installed consensus state with the
\* header's root written into it
FreezeOnConflict_rerooting(self, header, cs, trace) ==
    Updated(with_frozen_height(self, HeaderHeight(header)),
            [cs EXCEPT !.root = TmConsensusStateFrom(header).root], trace)

\* The conflict branch returning the header's consensus state
FreezeOnConflict_with_new(self, header, cs, trace) ==
    Updated(with_frozen_height(self, HeaderHeight(header)),
            TmConsensusStateFrom(header), trace)

\* The header verified but differs from the installed consensus state:
\* freeze the client and return the installed consensus state
FreezeOnConflict(self, header, cs, trace) ==
    Updated(with_frozen_height(self, HeaderHeight(header)), cs, trace)

\* ClientState::check_header_and_update_state
check_header_and_update_state(self, ctx, header) ==
    LET header_consensus_state == TmConsensusStateFrom(header)
        existing == maybe_consensus_state(ctx, HeaderHeight(header))
        t1 == <<"consensus_state(height)">>
        trusted == CtxConsensusState(ctx, header.trusted_height)
        t2 == Append(t1, "consensus_state(trusted_height)")
        options == as_light_client_options(self)
        verdict == Verify(UntrustedBlockState(header),
                          TrustedBlockState(self, header, Unwrap(trusted.val)),
                          Unwrap(options.val), ctx.host_timestamp)
        t3 == t2 \o <<"host_timestamp", "verify">>
        t4 == t3 \o MonotonicityTrace(self, header)
        t5 == IF HeightLT(header.trusted_height, HeaderHeight(header))
              THEN Append(t4, "prev_consensus_state") ELSE t4
        updated == with_header(self, header)
    IN  IF RevisionMismatch(self, header)
        THEN Failed("MismatchedRevisions", <<>>)
        ELSE IF ~existing.ok THEN Failed(existing.err, t1)
        ELSE IF IsSome(existing.val) /\ Unwrap(existing.val) = header_consensus_state
        THEN AlreadyInstalled(self, header, Unwrap(existing.val), t1)
        ELSE IF ~trusted.ok THEN Failed(trusted.err, t2)
        ELSE IF ~options.ok THEN Failed(options.err, t2)
        ELSE IF verdict # "Success" THEN Failed(verdict, t3)
        ELSE IF IsSome(existing.val) /\ Unwrap(existing.val) # header_consensus_state
        THEN FreezeOnConflict(self, header, Unwrap(existing.val), t3)
        ELSE IF HeaderTimestampTooHigh(self, ctx, header)
        THEN Failed("HeaderTimestampTooHigh", t4)
        ELSE IF HeaderTimestampTooLow(self, ctx, header)
        THEN Failed("HeaderTimestampTooLow", t5)
        ELSE IF ~updated.ok THEN Failed(updated.err, t5)
        ELSE Updated(Unwrap(updated.val), TmConsensusStateFrom(header), t5)

----------------------------------------------------------------------------
(* The ValidationContext entry point                                       *)
(* ctx = [consensus_states, host_timestamp, fault, not_found_as]: the      *)
(* reader returns ContextError; not_found_as is the ContextError variant   *)
(* in which the host reports a missing consensus state.                    *)

ContextErrorVariants == {"ClientError", "ConnectionError"}

\* ValidationContext::consensus_state(client_id, height)
ValCtxConsensusState(ctx, height) ==
    IF ctx.fault = "consensus_state"
    THEN [ok |-> FALSE, variant |-> "ClientError", err |-> "Other", val |-> None]
    ELSE IF ctx.consensus_states[height] = None
    THEN [ok |-> FALSE, variant |-> ctx.not_found_as,
          err |-> "ConsensusStateNotFound", val |-> None]
    ELSE [ok |-> TRUE, variant |-> "", err |-> "", val |-> ctx.consensus_states[height]]

\* maybe_consensus_state of new_check_header_and_update_state: a ClientError
\* stays an error, every other ContextError becomes Ok(None)
new_maybe_consensus_state(ctx, height) ==
    LET r == ValCtxConsensusState(ctx, height)
    IN  IF r.ok THEN [ok |-> TRUE, err |-> "", val |-> r.val]
        ELSE IF r.variant = "ClientError"
             THEN [ok |-> FALSE, err |-> r.err, val |-> None]
        ELSE [ok |-> TRUE, err |-> "", val |-> None]

\* ClientState::new_check_header_and_update_state; "panic" is the todo!() of
\* a reader error that is not a ClientError
new_check_header_and_update_state(self, ctx, header) ==
    LET header_consensus_state == TmConsensusStateFrom(header)
        existing == new_maybe_consensus_state(ctx, HeaderHeight(header))
        t1 == <<"consensus_state(height)">>
        trusted == ValCtxConsensusState(ctx, header.trusted_height)
        t2 == Append(t1, "consensus_state(trusted_height)")
        options == as_light_client_options(self)
        verdict == Verify(UntrustedBlockState(header),
                          TrustedBlockState(self, header, Unwrap(trusted.val)),
                          Unwrap(options.val), ctx.host_timestamp)
        t3 == t2 \o <<"host_timestamp", "verify">>
        t4 == t3 \o MonotonicityTrace(self, header)
        t5 == IF HeightLT(header.trusted_height, HeaderHeight(header))
              THEN Append(t4, "prev_consensus_state") ELSE t4
        updated == with_header(self, header)
    IN  IF RevisionMismatch(self, header)
        THEN Failed("MismatchedRevisions", <<>>)
        ELSE IF ~existing.ok THEN Failed(existing.err, t1)
        ELSE IF IsSome(existing.val) /\ Unwrap(existing.val) = header_consensus_state
        THEN Updated(self, Unwrap(existing.val), t1)
        ELSE IF ~trusted.ok
        THEN Failed(IF trusted.variant = "ClientError" THEN trusted.err ELSE "panic", t2)
        ELSE IF ~options.ok THEN Failed(options.err, t2)
        ELSE IF verdict # "Success" THEN Failed(verdict, t3)
        ELSE IF IsSome(existing.val) /\ Unwrap(existing.val) # header_consensus_state
        THEN Updated(with_frozen_height(self, HeaderHeight(header)),
                     Unwrap(existing.val), t3)
        ELSE IF HeaderTimestampTooHigh(self, ctx, header)
        THEN Failed("HeaderTimestampTooHigh", t4)
        ELSE IF HeaderTimestampTooLow(self, ctx, header)
        THEN Failed("HeaderTimestampTooLow", t5)
        ELSE IF ~updated.ok THEN Failed(updated.err, t5)
        ELSE Updated(Unwrap(updated.val), TmConsensusStateFrom(header), t5)

----------------------------------------------------------------------------
(* Misbehaviour *)

\* ChainId::with_version
with_version(chain_id, version) == [chain_id EXCEPT !.version = version]

\* Misbehaviour::chain_id_matches: the chain id of the misbehaviour's headers
chain_id_matches(misbehaviour, chain_id) ==
    /\ misbehaviour.header1.chain_id = chain_id
    /\ misbehaviour.header2.chain_id = chain_id

\* Timestamp::duration_since: None when `earlier` is after `now`
duration_since(now, earlier) == IF now >= earlier THEN Some(now - earlier) ELSE None

\* check_header_validator_set comparing against the hash the header itself
\* announces for the next validators
check_header_validator_set_untrusted(trusted_consensus_state, header) ==
    IF trusted_consensus_state.next_validators_hash # header.next_validators_hash
    THEN "MisbehaviourTrustedValidatorHashMismatch"
    ELSE "Ok"

\* ClientState::check_header_validator_set
check_header_validator_set(trusted_consensus_state, header) ==
    IF trusted_consensus_state.next_validators_hash # header.trusted_val_hash
    THEN "MisbehaviourTrustedValidatorHashMismatch"
    ELSE "Ok"

\* ClientState::check_header_and_validator_set
check_header_and_validator_set(self, header, consensus_state, current_timestamp) ==
    LET duration_since_consensus_state ==
            duration_since(current_timestamp, consensus_state.timestamp)
        options == as_light_client_options(self)
        verdict == ValidateAgainstTrusted(UntrustedBlockState(header),
                       TrustedBlockState(self, header, consensus_state),
                       Unwrap(options.val), current_timestamp)
    IN  IF check_header_validator_set(consensus_state, header) # "Ok"
        THEN check_header_validator_set(consensus_state, header)
        ELSE IF duration_since_consensus_state = None
        THEN "InvalidConsensusStateTimestamp"
        ELSE IF Unwrap(duration_since_consensus_state) >= self.trusting_period
        THEN "ConsensusStateTimestampGteTrustingPeriod"
        ELSE IF ~options.ok THEN options.err
        ELSE IF verdict # "Success" THEN verdict
        ELSE "Ok"

\* ClientState::verify_header_commit_against_trusted
verify_header_commit_against_trusted(self, header, consensus_state) ==
    LET options == as_light_client_options(self)
        verdict == VerifyCommitAgainstTrusted(UntrustedBlockState(header),
                       TrustedBlockState(self, header, consensus_state),
                       Unwrap(options.val))
    IN  IF ~options.ok THEN options.err
        ELSE IF verdict # "Success" THEN verdict
        ELSE "Ok"

\* The header-pair check rejecting equal times at different heights
HeaderPairCheck_inclusive(header_1, header_2) ==
    IF HeaderHeight(header_1) = HeaderHeight(header_2)
    THEN IF header_1.block_hash = header_2.block_hash
         THEN "MisbehaviourHeadersBlockHashesEqual" ELSE "Ok"
    ELSE IF header_1.time >= header_2.time
         THEN "MisbehaviourHeadersNotAtSameHeight" ELSE "Ok"

\* The header-pair check: a fork or a BFT time violation
HeaderPairCheck(header_1, header_2) ==
    IF HeaderHeight(header_1) = HeaderHeight(header_2)
    THEN IF header_1.block_hash = header_2.block_hash
         THEN "MisbehaviourHeadersBlockHashesEqual" ELSE "Ok"
    ELSE IF header_1.time > header_2.time
         THEN "MisbehaviourHeadersNotAtSameHeight" ELSE "Ok"

\* Freezing on misbehaviour at the first height of revision 1
MisbehaviourFrozenHeight_revision_one == Height(1, 1)

\* The height a client is frozen at on misbehaviour
MisbehaviourFrozenHeight == Height(0, 1)

\* The expected chain id left at the client's own version
ExpectedChainId_unversioned(self, header_1) == self.chain_id

\* The chain id the misbehaviour must carry: the client's, at header 1's revision
ExpectedChainId(self, header_1) ==
    with_version(self.chain_id, HeaderHeight(header_1).revision_number)

\* ClientState::check_misbehaviour_and_update_state
check_misbehaviour_and_update_state(self, ctx, misbehaviour) ==
    LET header_1 == misbehaviour.header1
        header_2 == misbehaviour.header2
        pair == HeaderPairCheck(header_1, header_2)
        cs1 == CtxConsensusState(ctx, header_1.trusted_height)
        t1 == <<"consensus_state(trusted_height_1)">>
        cs2 == CtxConsensusState(ctx, header_2.trusted_height)
        t2 == Append(t1, "consensus_state(trusted_height_2)")
        chain_id == ExpectedChainId(self, header_1)
        current_timestamp == ctx.host_timestamp
        t3 == Append(t2, "host_timestamp")
        v1 == check_header_and_validator_set(self, header_1, Unwrap(cs1.val),
                                             current_timestamp)
        v2 == check_header_and_validator_set(self, header_2, Unwrap(cs2.val),
                                             current_timestamp)
        c1 == verify_header_commit_against_trusted(self, header_1, Unwrap(cs1.val))
        c2 == verify_header_commit_against_trusted(self, header_2, Unwrap(cs2.val))
        none == [ok |-> FALSE, err |-> "", client_state |-> None,
                 consensus_state |-> None, trace |-> <<>>]
    IN  IF pair # "Ok" THEN Failed(pair, <<>>)
        ELSE IF ~cs1.ok THEN Failed(cs1.err, t1)
        ELSE IF ~cs2.ok THEN Failed(cs2.err, t2)
        ELSE IF ~chain_id_matches(misbehaviour, chain_id)
        THEN Failed("MisbehaviourHeadersChainIdMismatch", t2)
        ELSE IF v1 # "Ok" THEN Failed(v1, t3)
        ELSE IF v2 # "Ok" THEN Failed(v2, t3)
        ELSE IF c1 # "Ok" THEN Failed(c1, t3)
        ELSE IF c2 # "Ok" THEN Failed(c2, t3)
        ELSE [none EXCEPT !.ok = TRUE,
                          !.client_state =
                              Some(with_frozen_height(self, MisbehaviourFrozenHeight)),
                          !.trace = t3]

----------------------------------------------------------------------------
(* Packet proofs: the connection delay and verify_packet_data *)

\* The largest time a Timestamp holds (u64 nanoseconds in the source); adding
\* a Duration beyond it fails with TimestampOverflow
MaxTimestamp == 3

\* Height::add: the same revision, the revision height moved forward
HeightAdd(height, delta) == Height(height.revision_number, height.revision_height + delta)

\* ClientState::verify_delay_passed with a time check that refuses the exact
\* earliest time
DelayCheck_strict_time(current_time, current_height, processed_time, processed_height, delay_period_time, delay_period_blocks) ==
    LET earliest_time == processed_time + delay_period_time
        earliest_height == HeightAdd(processed_height, delay_period_blocks)
    IN  IF earliest_time > MaxTimestamp
        THEN [kind |-> "TimestampOverflow"]
        ELSE IF ~(current_time > earliest_time)
        THEN [kind |-> "NotEnoughTimeElapsed", current_time |-> current_time, earliest_time |-> earliest_time]
        ELSE IF HeightLT(current_height, earliest_height)
        THEN [kind |-> "NotEnoughBlocksElapsed", current_height |-> current_height, earliest_height |-> earliest_height]
        ELSE [kind |-> "Ok"]

\* ClientState::verify_delay_passed (associated function), with the payload
\* of its errors
DelayCheck(current_time, current_height, processed_time, processed_height, delay_period_time, delay_period_blocks) ==
    LET earliest_time == processed_time + delay_period_time
        earliest_height == HeightAdd(processed_height, delay_period_blocks)
    IN  IF earliest_time > MaxTimestamp
        THEN [kind |-> "TimestampOverflow"]
        ELSE IF ~(current_time = earliest_time \/ current_time > earliest_time)
        THEN [kind |-> "NotEnoughTimeElapsed", current_time |-> current_time, earliest_time |-> earliest_time]
        ELSE IF HeightLT(current_height, earliest_height)
        THEN [kind |-> "NotEnoughBlocksElapsed", current_height |-> current_height, earliest_height |-> earliest_height]
        ELSE [kind |-> "Ok"]

\* The error kind of ClientState::verify_delay_passed ("Ok" when it passes)
ClientState_verify_delay_passed(current_time, current_height, processed_time, processed_height, delay_period_time, delay_period_blocks) ==
    DelayCheck(current_time, current_height, processed_time, processed_height, delay_period_time, delay_period_blocks).kind

\* ChannelReader::block_delay: the blocks expected within a time delay, at
\* one block per time unit
block_delay(delay_period_time) == delay_period_time

\* ChannelReader::client_update_time and client_update_height: when, and at
\* which host height, the consensus state at `height` was stored
client_update_time(ctx, height) ==
    IF IsSome(ctx.client_update_time[height])
    THEN Ok(Unwrap(ctx.client_update_time[height]))
    ELSE Err("ProcessedTimeNotFound")

client_update_height(ctx, height) ==
    IF IsSome(ctx.client_update_height[height])
    THEN Ok(Unwrap(ctx.client_update_height[height]))
    ELSE Err("ProcessedHeightNotFound")

\* verify_delay_passed (free function): the host's time and height, then the
\* processed time and height of the consensus state at the proof height
verify_delay_passed(ctx, height, connection_end) ==
    IF ctx.fault = "host_timestamp" THEN "Other"
    ELSE IF ctx.fault = "host_height" THEN "Other"
    ELSE IF ~client_update_time(ctx, height).ok THEN "ProcessedTimeNotFound"
    ELSE IF ~client_update_height(ctx, height).ok THEN "ProcessedHeightNotFound"
    ELSE ClientState_verify_delay_passed(
             ctx.host_timestamp, ctx.host_height,
             Unwrap(client_update_time(ctx, height).val),
             Unwrap(client_update_height(ctx, height).val),
             connection_end.delay_period,
             block_delay(connection_end.delay_period))

\* CommitmentsPath{port_id, channel_id, sequence}
CommitmentsPath(port_id, channel_id, sequence) ==
    <<"commitments", port_id, channel_id, sequence>>

\* ClientState::verify_packet_data
verify_packet_data(self, ctx, height, connection_end, proof, root, port_id, channel_id, sequence, commitment) ==
    IF verify_height(self, height) # "Ok" THEN verify_height(self, height)
    ELSE IF verify_delay_passed(ctx, height, connection_end) # "Ok"
    THEN verify_delay_passed(ctx, height, connection_end)
    ELSE verify_membership(self, connection_end.counterparty.prefix, proof, root,
                           CommitmentsPath(port_id, channel_id, sequence),
                           commitment)

\* The proof of absence commits no value at its path
Absent == <<"absent">>

\* verify_non_membership (free function)
verify_non_membership(self, prefix, proof, root, path) ==
    LET merkle_path == apply_prefix(prefix, path)
    IN  IF ~proof.decodable THEN "InvalidCommitmentProof"
        ELSE IF ~(/\ proof.root = root
                  /\ proof.merkle_path = merkle_path
                  /\ proof.value = Absent)
        THEN "Ics23Verification"
        ELSE "Ok"

\* Store paths of ics24
ClientConsensusStatePath(client_id, epoch, height) == <<"clients", client_id, "consensusStates", epoch, height>>
ClientStatePath(client_id) == <<"clients", client_id, "clientState">>
ChannelEndsPath(port_id, channel_id) == <<"channelEnds", port_id, channel_id>>
AcksPath(port_id, channel_id, sequence) == <<"acks", port_id, channel_id, sequence>>
SeqRecvsPath(port_id, channel_id) == <<"nextSequenceRecv", port_id, channel_id>>
ReceiptsPath(port_id, channel_id, sequence) == <<"receipts", port_id, channel_id, sequence>>

\* ClientState::verify_client_consensus_state
verify_client_consensus_state(self, height, prefix, proof, root, client_id, consensus_height, expected_consensus_state) ==
    IF verify_height(self, height) # "Ok" THEN verify_height(self, height)
    ELSE verify_membership(self, prefix, proof, root,
                           ClientConsensusStatePath(client_id, consensus_height.revision_number, consensus_height.revision_height),
                           encode_vec(expected_consensus_state))

\* ClientState::verify_channel_state
verify_channel_state(self, height, prefix, proof, root, port_id, channel_id, expected_channel_end) ==
    IF verify_height(self, height) # "Ok" THEN verify_height(self, height)
    ELSE verify_membership(self, prefix, proof, root,
                           ChannelEndsPath(port_id, channel_id),
                           encode_vec(expected_channel_end))

\* ClientState::verify_client_full_state
verify_client_full_state(self, height, prefix, proof, root, client_id, expected_client_state) ==
    IF verify_height(self, height) # "Ok" THEN verify_height(self, height)
    ELSE verify_membership(self, prefix, proof, root,
                           ClientStatePath(client_id),
                           encode_vec(expected_client_state))

\* ClientState::verify_packet_acknowledgement evaluating the proof before the
\* connection delay
verify_packet_acknowledgement_proof_first(self, ctx, height, connection_end, proof, root, port_id, channel_id, sequence, ack_commitment) ==
    IF verify_height(self, height) # "Ok" THEN verify_height(self, height)
    ELSE IF verify_membership(self, connection_end.counterparty.prefix, proof, root, AcksPath(port_id, channel_id, sequence), ack_commitment) # "Ok"
    THEN verify_membership(self, connection_end.counterparty.prefix, proof, root, AcksPath(port_id, channel_id, sequence), ack_commitment)
    ELSE verify_delay_passed(ctx, height, connection_end)

\* ClientState::verify_packet_acknowledgement
verify_packet_acknowledgement(self, ctx, height, connection_end, proof, root, port_id, channel_id, sequence, ack_commitment) ==
    IF verify_height(self, height) # "Ok" THEN verify_height(self, height)
    ELSE IF verify_delay_passed(ctx, height, connection_end) # "Ok"
    THEN verify_delay_passed(ctx, height, connection_end)
    ELSE verify_membership(self, connection_end.counterparty.prefix, proof, root,
                           AcksPath(port_id, channel_id, sequence),
                           ack_commitment)

\* ClientState::verify_next_sequence_recv
verify_next_sequence_recv(self, ctx, height, connection_end, proof, root, port_id, channel_id, sequence) ==
    IF verify_height(self, height) # "Ok" THEN verify_height(self, height)
    ELSE IF verify_delay_passed(ctx, height, connection_end) # "Ok"
    THEN verify_delay_passed(ctx, height, connection_end)
    ELSE verify_membership(self, connection_end.counterparty.prefix, proof, root,
                           SeqRecvsPath(port_id, channel_id),
                           encode_vec(sequence))

\* ClientState::verify_packet_receipt_absence
verify_packet_receipt_absence(self, ctx, height, connection_end, proof, root, port_id, channel_id, sequence) ==
    IF verify_height(self, height) # "Ok" THEN verify_height(self, height)
    ELSE IF verify_delay_passed(ctx, height, connection_end) # "Ok"
    THEN verify_delay_passed(ctx, height, connection_end)
    ELSE verify_non_membership(self, connection_end.counterparty.prefix, proof, root,
                               ReceiptsPath(port_id, channel_id, sequence))

----------------------------------------------------------------------------
(* ics04 recv_packet: the handler `process`, run on chain B *)

\* channel::Counterparty::new
Counterparty(port_id, channel_id) == [port_id |-> port_id, channel_id |-> channel_id]

\* TimeoutHeight::has_expired: Never (None) does not expire; At(h) has
\* expired once the host height is above h
has_expired(timeout_height, height) ==
    IsSome(timeout_height) /\ HeightLT(Unwrap(timeout_height), height)

\* Timestamp::check_expiry of the host time against the packet's timeout
check_expiry(latest_timestamp, timeout_timestamp) ==
    IF latest_timestamp >= timeout_timestamp THEN "Expired" ELSE "NotExpired"

\* ClientState::is_frozen
is_frozen(self) == IsSome(self.frozen_height)

\* ChannelReader::packet_commitment: the host's hash over the packet data and
\* its timeouts (collision-free)
packet_commitment(data, timeout_height, timeout_timestamp) ==
    <<"commitment", data, timeout_height, timeout_timestamp>>

\* ChannelReader lookups
channel_end(ctx, port_id, channel_id) ==
    IF <<port_id, channel_id>> \in DOMAIN ctx.channels
    THEN Ok(ctx.channels[<<port_id, channel_id>>])
    ELSE Err("ChannelNotFound")

connection_end(ctx, connection_id) ==
    IF connection_id \in DOMAIN ctx.connections
    THEN Ok(ctx.connections[connection_id])
    ELSE Err("ConnectionNotFound")

client_consensus_state(ctx, client_id, height) == CtxConsensusState(ctx, height)

get_next_sequence_recv(ctx, port_id, channel_id) ==
    IF ctx.fault = "next_sequence_recv" THEN Err("MissingNextRecvSeq")
    ELSE Ok(ctx.next_sequence_recv)

\* PacketError as compared by its to_string(): the kind and the sequence named
PacketReceiptNotFound(sequence) ==
    [kind |-> "PacketReceiptNotFound", sequence |-> sequence]

get_packet_receipt(ctx, port_id, channel_id, sequence) ==
    IF ctx.fault = "packet_receipt"
    THEN Err([kind |-> "ImplementationSpecific", sequence |-> 0])
    ELSE IF sequence \in ctx.packet_receipts THEN Ok("Receipt::Ok")
    ELSE Err(PacketReceiptNotFound(sequence))

\* RecvPacketResult
NoOp == [kind |-> "NoOp"]
Unordered(port_id, channel_id, sequence, receipt) ==
    [kind |-> "Unordered", port_id |-> port_id, channel_id |-> channel_id,
     sequence |-> sequence, receipt |-> receipt]
Ordered(port_id, channel_id, next_seq_recv) ==
    [kind |-> "Ordered", port_id |-> port_id, channel_id |-> channel_id,
     next_seq_recv |-> next_seq_recv]

\* HandlerResult of process: Err(error), or Ok(output.with_result(result))
RecvErr(e, cause) ==
    [ok |-> FALSE, err |-> e, cause |-> cause, result |-> None, events |-> <<>>]
\* process's success output without the event for a NoOp result
RecvOk_silent_noop(result, events) ==
    [ok |-> TRUE, err |-> "", cause |-> "", result |-> Some(result),
     events |-> IF result.kind = "NoOp" THEN <<>> ELSE events]

RecvOk(result, events) ==
    [ok |-> TRUE, err |-> "", cause |-> "", result |-> Some(result), events |-> events]

\* IbcEvent::ReceivePacket
ReceivePacket(packet, ordering, connection_id) ==
    [type |-> "ReceivePacket", packet |-> packet, ordering |-> ordering,
     connection_id |-> connection_id]

\* The channel checks in the other order: the counterparty before the state
ChannelChecks_counterparty_first(chan_end_on_b, packet) ==
    IF chan_end_on_b.counterparty
          # Counterparty(packet.port_on_a, Some(packet.chan_on_a))
    THEN "InvalidPacketCounterparty"
    ELSE IF chan_end_on_b.state # "Open" THEN "InvalidChannelState"
    ELSE "Ok"

\* process: the channel is Open and its counterparty is the packet's source
ChannelChecks(chan_end_on_b, packet) ==
    IF chan_end_on_b.state # "Open" THEN "InvalidChannelState"
    ELSE IF chan_end_on_b.counterparty
               # Counterparty(packet.port_on_a, Some(packet.chan_on_a))
    THEN "InvalidPacketCounterparty"
    ELSE "Ok"

\* The frozen check made relative to the proof height, as verify_height does
ClientFrozenCheck_at_proof_height(client_state_of_a_on_b, msg) ==
    IF /\ IsSome(client_state_of_a_on_b.frozen_height)
       /\ HeightLE(Unwrap(client_state_of_a_on_b.frozen_height), msg.proof_height_on_a)
    THEN "FrozenClient" ELSE "Ok"

\* process: the client must not be frozen
ClientFrozenCheck(client_state_of_a_on_b, msg) ==
    IF is_frozen(client_state_of_a_on_b) THEN "FrozenClient" ELSE "Ok"

\* The height timeout reported with the timeout height as the chain height
HeightTimeoutCheck_swapped(latest_height, packet) ==
    IF has_expired(packet.timeout_height_on_b, latest_height)
    THEN RecvErr("LowPacketHeight",
                 [chain_height |-> packet.timeout_height_on_b,
                  timeout_height |-> Some(latest_height)])
    ELSE RecvErr("", "")

\* process: the packet's timeout height against the host height
HeightTimeoutCheck(latest_height, packet) ==
    IF has_expired(packet.timeout_height_on_b, latest_height)
    THEN RecvErr("LowPacketHeight",
                 [chain_height |-> latest_height,
                  timeout_height |-> packet.timeout_height_on_b])
    ELSE RecvErr("", "")

\* The timestamp timeout rejecting every expiry verdict but "Expired"
TimestampTimeoutCheck_inverted(latest_timestamp, packet) ==
    IF check_expiry(latest_timestamp, packet.timeout_timestamp_on_b) # "Expired"
    THEN RecvErr("LowPacketTimestamp", "")
    ELSE RecvErr("", "")

\* process: the packet's timeout timestamp against the host time
TimestampTimeoutCheck(latest_timestamp, packet) ==
    IF check_expiry(latest_timestamp, packet.timeout_timestamp_on_b) = "Expired"
    THEN RecvErr("LowPacketTimestamp", "")
    ELSE RecvErr("", "")

\* The ordered branch rejecting the expected sequence as well
OrderedResult_inclusive(packet, next_seq_recv) ==
    IF packet.sequence >= next_seq_recv
    THEN RecvErr("InvalidPacketSequence", "")
    ELSE Ok(NoOp)

\* The ordered branch accepting a packet ahead of the expected sequence
OrderedResult_skipping(packet, next_seq_recv) ==
    IF packet.sequence < next_seq_recv THEN Ok(NoOp)
    ELSE Ok(Ordered(packet.port_on_b, packet.chan_on_b, packet.sequence + 1))

\* process, ordered channel: the sequence against next_seq_recv
OrderedResult(packet, next_seq_recv) ==
    IF packet.sequence > next_seq_recv
    THEN RecvErr("InvalidPacketSequence", "")
    ELSE IF packet.sequence < next_seq_recv THEN Ok(NoOp)
    ELSE Ok(Ordered(packet.port_on_b, packet.chan_on_b, next_seq_recv + 1))

\* The unordered branch taking every lookup error for a missing receipt
UnorderedResult_any_error(packet, packet_rec) ==
    IF packet_rec.ok THEN Ok(NoOp)
    ELSE Ok(Unordered(packet.port_on_b, packet.chan_on_b, packet.sequence,
                      "Receipt::Ok"))

\* The unordered branch writing the receipt again when one exists
UnorderedResult_rewriting(packet, packet_rec) ==
    IF packet_rec.ok \/ packet_rec.err = PacketReceiptNotFound(packet.sequence)
    THEN Ok(Unordered(packet.port_on_b, packet.chan_on_b, packet.sequence,
                      "Receipt::Ok"))
    ELSE RecvErr("ImplementationSpecific", "")

\* process, unordered channel: the receipt lookup decides
UnorderedResult(packet, packet_rec) ==
    IF packet_rec.ok THEN Ok(NoOp)
    ELSE IF packet_rec.err = PacketReceiptNotFound(packet.sequence)
    THEN Ok(Unordered(packet.port_on_b, packet.chan_on_b, packet.sequence,
                      "Receipt::Ok"))
    ELSE RecvErr("ImplementationSpecific", "")

\* recv_packet::process
process(ctx_b, msg) ==
    LET packet == msg.packet
        chan == channel_end(ctx_b, packet.port_on_b, packet.chan_on_b)
        chan_end_on_b == Unwrap(chan.val)
        conn_id_on_b == chan_end_on_b.connection_hops[1]
        conn == connection_end(ctx_b, conn_id_on_b)
        conn_end_on_b == Unwrap(conn.val)
        latest_height == ctx_b.host_height
        latest_timestamp == ctx_b.host_timestamp
        client_id_on_b == conn_end_on_b.client_id
        client_state_of_a_on_b == ctx_b.client_state
        consensus == client_consensus_state(ctx_b, client_id_on_b,
                                            msg.proof_height_on_a)
        expected_commitment_on_a ==
            packet_commitment(packet.data, packet.timeout_height_on_b,
                              packet.timeout_timestamp_on_b)
        verified ==
            verify_packet_data(client_state_of_a_on_b, ctx_b, msg.proof_height_on_a,
                               conn_end_on_b, msg.proof_commitment_on_a,
                               Unwrap(consensus.val).root, packet.port_on_a,
                               packet.chan_on_a, packet.sequence,
                               expected_commitment_on_a)
        next_seq == get_next_sequence_recv(ctx_b, packet.port_on_b, packet.chan_on_b)
        result ==
            IF chan_end_on_b.ordering = "Ordered"
            THEN IF ~next_seq.ok THEN RecvErr(next_seq.err, "")
                 ELSE OrderedResult(packet, Unwrap(next_seq.val))
            ELSE UnorderedResult(packet,
                     get_packet_receipt(ctx_b, packet.port_on_b, packet.chan_on_b,
                                        packet.sequence))
    IN  IF ~chan.ok THEN RecvErr(chan.err, "")
        ELSE IF ChannelChecks(chan_end_on_b, packet) # "Ok"
        THEN RecvErr(ChannelChecks(chan_end_on_b, packet), "")
        ELSE IF ~conn.ok THEN RecvErr(conn.err, "")
        ELSE IF conn_end_on_b.state # "Open" THEN RecvErr("ConnectionNotOpen", "")
        ELSE IF HeightTimeoutCheck(latest_height, packet).err # ""
        THEN HeightTimeoutCheck(latest_height, packet)
        ELSE IF TimestampTimeoutCheck(latest_timestamp, packet).err # ""
        THEN TimestampTimeoutCheck(latest_timestamp, packet)
        ELSE IF ClientFrozenCheck(client_state_of_a_on_b, msg) # "Ok"
        THEN RecvErr(ClientFrozenCheck(client_state_of_a_on_b, msg), "")
        ELSE IF ~consensus.ok THEN RecvErr(consensus.err, "")
        ELSE IF verified # "Ok" THEN RecvErr("PacketVerificationFailed", verified)
        ELSE IF ~result.ok THEN result
        ELSE RecvOk(Unwrap(result.val),
                    <<ReceivePacket(packet, chan_end_on_b.ordering, conn_id_on_b)>>)

----------------------------------------------------------------------------
(* The state machine *)

Idle ==
    [op |-> "none", headers |-> <<>>, height |-> None, fault |-> "none",
     ok |-> FALSE, err |-> "", client_state |-> None,
     consensus_state |-> None, trace |-> <<>>]

Outcome(op, headers, height, fault, r) ==
    [op |-> op, headers |-> headers, height |-> height, fault |-> fault,
     ok |-> r.ok, err |-> r.err, client_state |-> r.client_state,
     consensus_state |-> r.consensus_state, trace |-> r.trace]

\* A host store without connections or channels
EmptyChanStore ==
    [channels |-> <<>>, connections |-> <<>>, host_height |-> Height(1, 1),
     next_sequence_recv |-> 1, packet_receipts |-> {},
     processed |-> [h \in Heights |-> None]]

\* A client built by ClientState::new and initialised with one consensus state
InitClientState ==
    [chain_id |-> InitChainId,
     trust_level |-> [numerator |-> 1, denominator |-> 3],
     trusting_period |-> 2,
     unbonding_period |-> 3,
     max_clock_drift |-> 2,
     latest_height |-> InitHeight,
     proof_specs |-> <<"iavl", "tendermint">>,
     upgrade_path |-> <<"upgrade", "upgradedIBCState">>,
     allow_update |-> [after_expiry |-> FALSE, after_misbehaviour |-> FALSE],
     frozen_height |-> None]

InitConsensusState == [timestamp |-> 0, root |-> 1, next_validators_hash |-> 1]

Init ==
    /\ client_state = InitClientState
    /\ consensus_states =
         [h \in Heights |-> IF h = InitHeight THEN Some(InitConsensusState) ELSE None]
    /\ host_timestamp = 0
    /\ res = Idle
    /\ chan_store = EmptyChanStore
    /\ applied = {}

\* MsgUpdateClient: the handler runs on the current store
UpdateClient ==
    /\ res.op = "none"
    /\ \E header \in Headers, fault \in Faults :
         res' = Outcome("update", <<header>>, None, fault,
                        check_header_and_update_state(client_state, Ctx(fault), header))
    /\ UNCHANGED <<client_state, consensus_states, host_timestamp>>
    /\ UNCHANGED <<chan_store, applied>>

\* A proof-height query against the stored client state
VerifyHeight ==
    /\ res.op = "none"
    /\ \E height \in Heights :
         LET v == verify_height(client_state, height)
         IN  res' = Outcome("verify_height", <<>>, Some(height), "none",
                            IF v = "Ok"
                            THEN [ok |-> TRUE, err |-> "", client_state |-> None,
                                  consensus_state |-> None, trace |-> <<>>]
                            ELSE Failed(v, <<>>))
    /\ UNCHANGED <<client_state, consensus_states, host_timestamp>>
    /\ UNCHANGED <<chan_store, applied>>

\* The client state the host stores for an outcome
StoreClientState(stored, r) ==
    IF IsSome(r.client_state) THEN Unwrap(r.client_state) ELSE stored

\* The consensus states the host stores for an outcome: an update's consensus
\* state goes under the header's height
StoreConsensusState(store, r) ==
    IF r.op \in {"update", "new_update"}
    THEN [store EXCEPT ![HeaderHeight(r.headers[1])] = r.consensus_state]
    ELSE store

\* The host persists a successful outcome
HostCommit ==
    /\ res.op # "none"
    /\ res.ok
    /\ client_state' = StoreClientState(client_state, res)
    /\ consensus_states' = StoreConsensusState(consensus_states, res)
    /\ res' = Idle
    /\ UNCHANGED host_timestamp
    /\ UNCHANGED <<chan_store, applied>>

\* The host drops the outcome (an error aborts the message; state is untouched)
HostDiscard ==
    /\ res.op # "none"
    /\ res' = Idle
    /\ UNCHANGED <<client_state, consensus_states, host_timestamp>>
    /\ UNCHANGED <<chan_store, applied>>

\* Host time passes between transactions
AdvanceTime ==
    /\ res.op = "none"
    /\ host_timestamp < MaxTime
    /\ host_timestamp' = host_timestamp + 1
    /\ UNCHANGED <<client_state, consensus_states, res>>
    /\ UNCHANGED <<chan_store, applied>>

Next ==
    \/ UpdateClient
    \/ VerifyHeight
    \/ HostCommit
    \/ HostDiscard
    \/ AdvanceTime

Spec == Init /\ [][Next]_vars

----------------------------------------------------------------------------
(* The misbehaviour flow, on a client that holds two consensus states *)

MbChainIds == {ChainId("ibc", 1), ChainId("ibc", 0), ChainId("eth", 1)}

MbHeaders ==
    [chain_id : MbChainIds,
     revision_height : 2..MaxHeight,
     trusted_height : {Height(InitChainId.version, rh) : rh \in 1..MbMaxTrusted},
     time : 1..MbMaxTime,
     app_hash : {1},
     next_validators_hash : {1},
     block_hash : {1, 2},
     trusted_val_hash : {1, 2},
     sig_ok : BOOLEAN]

InitMb ==
    /\ client_state = [InitClientState EXCEPT !.latest_height = Height(1, 2)]
    /\ consensus_states =
         [h \in Heights |->
            IF h = InitHeight THEN Some(InitConsensusState)
            ELSE IF h = Height(1, 2)
                 THEN Some([timestamp |-> 1, root |-> 1, next_validators_hash |-> 1])
            ELSE None]
    /\ host_timestamp = 1
    /\ res = Idle
    /\ chan_store = EmptyChanStore
    /\ applied = {}

\* MsgSubmitMisbehaviour: the handler runs on the current store
SubmitMisbehaviour ==
    /\ res.op = "none"
    /\ \E header_1 \in MbHeaders, header_2 \in MbHeaders :
         res' = Outcome("misbehaviour", <<header_1, header_2>>, None, "none",
                        check_misbehaviour_and_update_state(client_state, Ctx("none"),
                            [header1 |-> header_1, header2 |-> header_2]))
    /\ UNCHANGED <<client_state, consensus_states, host_timestamp>>
    /\ UNCHANGED <<chan_store, applied>>

NextMb ==
    \/ SubmitMisbehaviour
    \/ HostCommit
    \/ HostDiscard
    \/ AdvanceTime

SpecMb == InitMb /\ [][NextMb]_vars

----------------------------------------------------------------------------
(* The life of one client: updates, misbehaviour, upgrade, and proof       *)
(* verification against it                                                 *)

LifeHeaders ==
    [chain_id : {InitChainId},
     revision_height : {2, 3},
     trusted_height : {Height(InitChainId.version, 1), Height(InitChainId.version, 2)},
     time : {1, 2},
     app_hash : Roots,
     next_validators_hash : {1},
     block_hash : {1},
     trusted_val_hash : {1},
     sig_ok : {TRUE}]

LifeMbHeaders ==
    [chain_id : {InitChainId},
     revision_height : {2, 3},
     trusted_height : {InitHeight},
     time : {1, 2},
     app_hash : {1},
     next_validators_hash : {1},
     block_hash : {1, 2},
     trusted_val_hash : {1},
     sig_ok : {TRUE}]

LifeProofHeights == {Height(0, 1), Height(1, 1), Height(1, 2), Height(1, 3)}

\* Proofs of the state of connection-0 on the counterparty
LifeProofs ==
    {ProofOf(d, r, apply_prefix("ibc", ConnectionsPath("connection-0")),
             encode_vec(v)) :
        d \in BOOLEAN, r \in Roots, v \in {"Open", "Init"}}

UpgradeHeights == {Height(1, 3), Height(2, 1)}
UpgradeChainIds == {ChainId("ibc", 2)}

LifeUpdateClient ==
    /\ res.op = "none"
    /\ \E header \in LifeHeaders :
         res' = Outcome("update", <<header>>, None, "none",
                        check_header_and_update_state(client_state, Ctx("none"), header))
    /\ UNCHANGED <<client_state, consensus_states, host_timestamp>>
    /\ UNCHANGED <<chan_store, applied>>

LifeSubmitMisbehaviour ==
    /\ res.op = "none"
    /\ \E header_1 \in LifeMbHeaders, header_2 \in LifeMbHeaders :
         res' = Outcome("misbehaviour", <<header_1, header_2>>, None, "none",
                        check_misbehaviour_and_update_state(client_state, Ctx("none"),
                            [header1 |-> header_1, header2 |-> header_2]))
    /\ UNCHANGED <<client_state, consensus_states, host_timestamp>>
    /\ UNCHANGED <<chan_store, applied>>

\* A governance upgrade of the client: ClientState::upgrade on the stored state
UpgradeClient ==
    /\ res.op = "none"
    /\ \E upgrade_height \in UpgradeHeights, chain_id \in UpgradeChainIds :
         res' = Outcome("upgrade", <<>>, Some(upgrade_height), "none",
                        [ok |-> TRUE, err |-> "",
                         client_state |->
                             Some(upgrade(client_state, upgrade_height,
                                          [unbonding_period |-> 3], chain_id)),
                         consensus_state |-> None, trace |-> <<>>])
    /\ UNCHANGED <<client_state, consensus_states, host_timestamp>>
    /\ UNCHANGED <<chan_store, applied>>

\* A connection handshake step verifying the counterparty's connection end
\* against the stored client state
VerifyConnectionState ==
    /\ res.op = "none"
    /\ \E height \in LifeProofHeights, proof \in LifeProofs, root \in Roots :
         LET v == verify_connection_state(client_state, height, "ibc", proof, root,
                                          "connection-0", "Open")
         IN  res' = [Outcome("verify_connection_state", <<>>, Some(height), "none",
                             IF v = "Ok"
                             THEN [ok |-> TRUE, err |-> "", client_state |-> None,
                                   consensus_state |-> None, trace |-> <<>>]
                             ELSE Failed(v, <<>>))
                     EXCEPT !.trace = <<proof, root>>]
    /\ UNCHANGED <<client_state, consensus_states, host_timestamp>>
    /\ UNCHANGED <<chan_store, applied>>

NextLife ==
    \/ LifeUpdateClient
    \/ LifeSubmitMisbehaviour
    \/ UpgradeClient
    \/ VerifyConnectionState
    \/ HostCommit
    \/ HostDiscard
    \/ AdvanceTime

SpecLife == Init /\ [][NextLife]_vars

----------------------------------------------------------------------------
(* The two update entry points on one store: the ClientReader one and the  *)
(* ValidationContext one                                                   *)

\* MsgUpdateClient handled through the ValidationContext entry point
NewUpdateClient ==
    /\ res.op = "none"
    /\ \E header \in LifeHeaders, fault \in Faults, not_found_as \in ContextErrorVariants :
         res' = Outcome("new_update", <<header>>, None, fault,
                        new_check_header_and_update_state(client_state,
                            [consensus_states |-> consensus_states,
                             host_timestamp |-> host_timestamp,
                             fault |-> fault, not_found_as |-> not_found_as],
                            header))
                @@ [not_found_as |-> not_found_as]
    /\ UNCHANGED <<client_state, consensus_states, host_timestamp>>
    /\ UNCHANGED <<chan_store, applied>>

NextVal ==
    \/ NewUpdateClient
    \/ LifeUpdateClient
    \/ HostCommit
    \/ HostDiscard
    \/ AdvanceTime

SpecVal == Init /\ [][NextVal]_vars

----------------------------------------------------------------------------
(* Out-of-order updates of one client over a longer run of heights         *)

MonoMaxHeight == 4

MonoHeights == {Height(InitChainId.version, rh) : rh \in 1..MonoMaxHeight}

MonoHeaders ==
    [chain_id : {InitChainId},
     revision_height : 2..MonoMaxHeight,
     trusted_height : {InitHeight},
     time : {1, 2},
     app_hash : {1},
     next_validators_hash : {1},
     block_hash : {1},
     trusted_val_hash : {1},
     sig_ok : {TRUE}]

\* The client of Init on a store with room for MonoMaxHeight heights
InitMono ==
    /\ client_state = InitClientState
    /\ consensus_states =
         [h \in MonoHeights |-> IF h = InitHeight THEN Some(InitConsensusState) ELSE None]
    /\ host_timestamp = 0
    /\ res = Idle
    /\ chan_store = EmptyChanStore
    /\ applied = {}

MonoUpdateClient ==
    /\ res.op = "none"
    /\ \E header \in MonoHeaders :
         res' = Outcome("update", <<header>>, None, "none",
                        check_header_and_update_state(client_state, Ctx("none"), header))
    /\ UNCHANGED <<client_state, consensus_states, host_timestamp>>
    /\ UNCHANGED <<chan_store, applied>>

NextMono ==
    \/ MonoUpdateClient
    \/ HostCommit
    \/ HostDiscard
    \/ AdvanceTime

SpecMono == InitMono /\ [][NextMono]_vars

----------------------------------------------------------------------------
(* Packet delivery on chain B: one channel over one connection whose client *)
(* is the Tendermint client of chain A                                      *)

ChanStates == {"Open", "Closed"}
ConnStates == {"Open", "Init"}
Orderings == {"Ordered", "Unordered"}

\* The client of chain A on B: at height (1, 2), unfrozen, frozen by
\* misbehaviour, or frozen by a conflicting header at its latest height
RecvClientStates ==
    LET unfrozen == [InitClientState EXCEPT !.latest_height = Height(1, 2)]
    IN  {unfrozen,
         with_frozen_height(unfrozen, MisbehaviourFrozenHeight),
         with_frozen_height(unfrozen, Height(1, 2))}

RecvPackets ==
    [sequence : 1..MaxSeq,
     port_on_a : {"transfer", "rogue"},
     chan_on_a : {"channel-1"},
     port_on_b : {"transfer"},
     chan_on_b : {"channel-0", "channel-9"},
     data : {"data"},
     timeout_height_on_b : {None, Some(Height(1, 2))},
     timeout_timestamp_on_b : {1, 3}]

RecvProofHeights == {Height(1, 1), Height(1, 2)}

\* The host times of the deliveries: before, at and after the timeout
\* timestamp 1, all before the timeout timestamp 3
RecvTimes == {0, 1, 2}

\* MsgRecvPacket: the proof commits the packet's commitment on A under a root
RecvMsgs ==
    {[packet |-> p,
      proof_commitment_on_a |->
          ProofOf(TRUE, r,
                  apply_prefix("ibc", CommitmentsPath(p.port_on_a, p.chan_on_a,
                                                      p.sequence)),
                  packet_commitment(p.data, p.timeout_height_on_b,
                                    p.timeout_timestamp_on_b)),
      proof_height_on_a |-> h] :
        p \in RecvPackets, r \in Roots, h \in RecvProofHeights}

RecvFaults == {"none", "packet_receipt", "next_sequence_recv"}

\* The reader handed to process
RecvCtx(fault) ==
    [consensus_states |-> consensus_states,
     host_timestamp |-> host_timestamp,
     fault |-> fault,
     client_state |-> client_state,
     channels |-> chan_store.channels,
     connections |-> chan_store.connections,
     host_height |-> chan_store.host_height,
     next_sequence_recv |-> chan_store.next_sequence_recv,
     packet_receipts |-> chan_store.packet_receipts,
     client_update_time |->
         [h \in Heights |-> {p.time : p \in chan_store.processed[h]}],
     client_update_height |->
         [h \in Heights |-> {p.height : p \in chan_store.processed[h]}]]

InitRecv ==
    /\ client_state \in RecvClientStates
    /\ consensus_states =
         [h \in Heights |->
            IF h = Height(1, 1) THEN Some(InitConsensusState)
            ELSE IF h = Height(1, 2)
                 THEN Some([timestamp |-> 1, root |-> 2, next_validators_hash |-> 1])
            ELSE None]
    /\ host_timestamp = 0
    /\ res = Idle
    /\ \E state \in ChanStates, ordering \in Orderings, conn_state \in ConnStates :
         chan_store =
            [channels |->
                 (<<"transfer", "channel-0">> :>
                      [state |-> state, ordering |-> ordering,
                       counterparty |-> Counterparty("transfer", Some("channel-1")),
                       connection_hops |-> <<"connection-0">>]),
             connections |->
                 ("connection-0" :>
                      [state |-> conn_state, client_id |-> "07-tendermint-0",
                       counterparty |-> [prefix |-> "ibc"], delay_period |-> 1]),
             host_height |-> Height(1, 1),
             next_sequence_recv |-> 1,
             packet_receipts |-> {},
             processed |->
                 [h \in Heights |->
                    IF h \in {Height(1, 1), Height(1, 2)}
                    THEN Some([time |-> 0, height |-> Height(1, 1)])
                    ELSE None]]
    /\ applied = {}

\* MsgRecvPacket: the handler runs on the current store
RecvPacket ==
    /\ res.op = "none"
    /\ \E msg \in RecvMsgs, fault \in RecvFaults :
         LET r == process(RecvCtx(fault), msg)
         IN  res' = [op |-> "recv_packet", msg |-> msg, fault |-> fault,
                     ok |-> r.ok, err |-> r.err, cause |-> r.cause,
                     result |-> r.result, events |-> r.events]
    /\ UNCHANGED <<client_state, consensus_states, host_timestamp>>
    /\ UNCHANGED <<chan_store, applied>>

\* The write the host performs for a RecvPacketResult
store_packet_result(store, result) ==
    IF result.kind = "Ordered"
    THEN [store EXCEPT !.next_sequence_recv = result.next_seq_recv]
    ELSE IF result.kind = "Unordered"
    THEN [store EXCEPT !.packet_receipts = @ \cup {result.sequence}]
    ELSE store

\* The host applies the result of a successful delivery
StorePacketResult ==
    /\ res.op = "recv_packet"
    /\ res.ok
    /\ chan_store' = store_packet_result(chan_store, Unwrap(res.result))
    /\ applied' = IF Unwrap(res.result).kind = "NoOp" THEN applied
                  ELSE applied \cup {res.msg}
    /\ res' = Idle
    /\ UNCHANGED <<client_state, consensus_states, host_timestamp>>

\* Chain B produces a block: its height and time advance
NextBlock ==
    /\ res.op = "none"
    /\ host_timestamp + 1 \in RecvTimes
    /\ host_timestamp' = host_timestamp + 1
    /\ chan_store' =
         [chan_store EXCEPT !.host_height =
              Height(@.revision_number, @.revision_height + 1)]
    /\ UNCHANGED <<client_state, consensus_states, res, applied>>

NextRecv ==
    \/ RecvPacket
    \/ StorePacketResult
    \/ HostDiscard
    \/ NextBlock

SpecRecv == InitRecv /\ [][NextRecv]_vars

-----------------------------------------------------------------------------
(* Direct calls of the client state's functions: the caller supplies every  *)
(* argument, and res holds the arguments and what the function returned.    *)

\* Arguments of ClientState::verify_delay_passed
DelayArgs ==
    [current_time : 0 .. MaxTimestamp,
     current_height : {Height(0, 1), Height(0, 2), Height(0, 3), Height(0, 4), Height(1, 1)},
     processed_time : {0, 1, 2},
     processed_height : {Height(0, 1), Height(0, 2), Height(1, 1)},
     delay_period_time : {0, 1, 2},
     delay_period_blocks : {0, 1, 2}]

CallVerifyDelayPassed ==
    /\ res.op = "none"
    /\ \E args \in DelayArgs :
          res' = [op |-> "verify_delay_passed",
                  current_time |-> args.current_time,
                  current_height |-> args.current_height,
                  processed_time |-> args.processed_time,
                  processed_height |-> args.processed_height,
                  delay_period_time |-> args.delay_period_time,
                  delay_period_blocks |-> args.delay_period_blocks,
                  out |-> DelayCheck(args.current_time, args.current_height, args.processed_time, args.processed_height, args.delay_period_time, args.delay_period_blocks)]
    /\ UNCHANGED <<client_state, consensus_states, host_timestamp>>
    /\ UNCHANGED <<chan_store, applied>>

\* The four that take the reader and check the connection delay
PacketWrappers ==
    {"verify_packet_data", "verify_packet_acknowledgement",
     "verify_next_sequence_recv", "verify_packet_receipt_absence"}

\* The connection whose counterparty the proofs are about
CallConnectionEnd ==
    [state |-> "Open", client_id |-> "07-tendermint-0",
     counterparty |-> [prefix |-> "ibc"], delay_period |-> 1]

\* The store path and the value each verification expects the proof to commit
WrapperPath(name) ==
    CASE name = "verify_client_consensus_state" -> ClientConsensusStatePath("07-tendermint-0", 1, 1)
      [] name = "verify_connection_state" -> ConnectionsPath("connection-0")
      [] name = "verify_channel_state" -> ChannelEndsPath("transfer", "channel-1")
      [] name = "verify_client_full_state" -> ClientStatePath("07-tendermint-0")
      [] name = "verify_packet_data" -> CommitmentsPath("transfer", "channel-1", 1)
      [] name = "verify_packet_acknowledgement" -> AcksPath("transfer", "channel-1", 1)
      [] name = "verify_next_sequence_recv" -> SeqRecvsPath("transfer", "channel-1")
      [] name = "verify_packet_receipt_absence" -> ReceiptsPath("transfer", "channel-1", 1)

WrapperValue(name) ==
    CASE name = "verify_client_consensus_state" -> encode_vec("consensus-state")
      [] name = "verify_connection_state" -> encode_vec("Open")
      [] name = "verify_channel_state" -> encode_vec("Open")
      [] name = "verify_client_full_state" -> encode_vec("client-state")
      [] name = "verify_packet_data" -> <<"commitment", "data">>
      [] name = "verify_packet_acknowledgement" -> <<"commitment", "ack">>
      [] name = "verify_next_sequence_recv" -> encode_vec(1)
      [] name = "verify_packet_receipt_absence" -> Absent

\* One call of a verification, with the arguments above
CallWrapper(name, self, ctx, height, proof, root) ==
    CASE name = "verify_client_consensus_state" ->
            verify_client_consensus_state(self, height, "ibc", proof, root, "07-tendermint-0", Height(1, 1), "consensus-state")
      [] name = "verify_connection_state" ->
            verify_connection_state(self, height, "ibc", proof, root, "connection-0", "Open")
      [] name = "verify_channel_state" ->
            verify_channel_state(self, height, "ibc", proof, root, "transfer", "channel-1", "Open")
      [] name = "verify_client_full_state" ->
            verify_client_full_state(self, height, "ibc", proof, root, "07-tendermint-0", "client-state")
      [] name = "verify_packet_data" ->
            verify_packet_data(self, ctx, height, CallConnectionEnd, proof, root, "transfer", "channel-1", 1, <<"commitment", "data">>)
      [] name = "verify_packet_acknowledgement" ->
            verify_packet_acknowledgement(self, ctx, height, CallConnectionEnd, proof, root, "transfer", "channel-1", 1, <<"commitment", "ack">>)
      [] name = "verify_next_sequence_recv" ->
            verify_next_sequence_recv(self, ctx, height, CallConnectionEnd, proof, root, "transfer", "channel-1", 1)
      [] name = "verify_packet_receipt_absence" ->
            verify_packet_receipt_absence(self, ctx, height, CallConnectionEnd, proof, root, "transfer", "channel-1", 1)

\* Proofs handed to a verification: undecodable or not, under the expected
\* root or another, at the expected path or another, committing the expected
\* value or a different one
CallProofs(name) ==
    {ProofOf(d, r, mp, v) :
        d \in BOOLEAN, r \in {1, 2},
        mp \in {apply_prefix("ibc", WrapperPath(name)), apply_prefix("ibc", <<"elsewhere">>)},
        v \in {WrapperValue(name), <<"other">>}}

\* Arguments of a verification: which of the eight, the client state, the
\* proof height, and what the reader answers
CallArgs ==
    [name : {"verify_client_consensus_state", "verify_connection_state",
             "verify_channel_state", "verify_client_full_state",
             "verify_packet_data", "verify_packet_acknowledgement",
             "verify_next_sequence_recv", "verify_packet_receipt_absence"},
     self : RecvClientStates,
     height : {Height(0, 1), Height(1, 1), Height(1, 2), Height(1, 3)},
     fault : {"none", "host_timestamp", "host_height"},
     processed_time : {None, Some(0), Some(2)},
     processed_height : {None, Some(Height(1, 1)), Some(Height(1, 2))}]

\* The reader of a verification call: the host is at time 2 and height 1-2
CallCtx(fault, processed_time, processed_height) ==
    [fault |-> fault,
     host_timestamp |-> 2,
     host_height |-> Height(1, 2),
     client_update_time |-> [h \in Heights |-> processed_time],
     client_update_height |-> [h \in Heights |-> processed_height]]

CallVerify ==
    /\ res.op = "none"
    /\ \E args \in CallArgs :
         \E proof \in CallProofs(args.name) :
            res' = [op |-> "verify", wrapper |-> args.name, self |-> args.self,
                    height |-> args.height, fault |-> args.fault,
                    processed_time |-> args.processed_time,
                    processed_height |-> args.processed_height,
                    proof |-> proof,
                    out |-> CallWrapper(args.name, args.self, CallCtx(args.fault, args.processed_time, args.processed_height), args.height, proof, 1)]
    /\ UNCHANGED <<client_state, consensus_states, host_timestamp>>
    /\ UNCHANGED <<chan_store, applied>>

\* Arguments of ClientState::new
NewArgs ==
    [chain_id : {ChainId("ibc", 1), ChainId("ibc", 0), ChainId("aaaaaaaaaaaaaaaaaaaaaaaaaaaaaaaaaaaaaaaaaaaaaaaa", 1), ChainId("aaaaaaaaaaaaaaaaaaaaaaaaaaaaaaaaaaaaaaaaaaaaaaaaa", 1)},
     trust_level : {TrustThresholdZERO,
                    [numerator |-> 0, denominator |-> 3], [numerator |-> 1, denominator |-> 4],
                    [numerator |-> 1, denominator |-> 3], [numerator |-> 2, denominator |-> 3]},
     trusting_period : {0, 1, 2},
     unbonding_period : {0, 1, 2},
     max_clock_drift : {0, 1},
     latest_height : {Height(0, 1), Height(1, 1)},
     proof_specs : {<<>>, <<"iavl", "tendermint">>},
     upgrade_path : {<<>>, <<"upgrade", "upgradedIBCState">>, <<"upgrade", " ">>, <<"", "upgradedIBCState">>},
     allow_update : {[after_expiry |-> FALSE, after_misbehaviour |-> FALSE], [after_expiry |-> TRUE, after_misbehaviour |-> FALSE]},
     frozen_height : {None, Some(Height(1, 1))}]

\* ClientState::new called with a record of its arguments
NewFrom(cs) ==
    new(cs.chain_id, cs.trust_level, cs.trusting_period, cs.unbonding_period, cs.max_clock_drift, cs.latest_height, cs.proof_specs, cs.upgrade_path, cs.allow_update, cs.frozen_height)

CallNew ==
    /\ res.op = "none"
    /\ \E args \in NewArgs :
         res' = [op |-> "new", args |-> args, out |-> NewFrom(args)]
    /\ UNCHANGED <<client_state, consensus_states, host_timestamp>>
    /\ UNCHANGED <<chan_store, applied>>

\* Client states an upgrade is applied to, and its arguments
UpgradeArgs ==
    [self : {InitClientState,
             [InitClientState EXCEPT !.allow_update = [after_expiry |-> TRUE, after_misbehaviour |-> TRUE]],
             [InitClientState EXCEPT !.allow_update = [after_expiry |-> FALSE, after_misbehaviour |-> TRUE],
                                     !.upgrade_path = <<>>],
             with_frozen_height(InitClientState, MisbehaviourFrozenHeight),
             with_frozen_height([InitClientState EXCEPT !.latest_height = Height(1, 2)], Height(1, 2))},
     upgrade_height : {Height(1, 1), Height(1, 3), Height(2, 1)},
     upgrade_options : {[unbonding_period |-> 0], [unbonding_period |-> 1], [unbonding_period |-> 3]},
     chain_id : {ChainId("ibc", 1), ChainId("ibc", 2), ChainId("ibc-next", 2)}]

CallUpgrade ==
    /\ res.op = "none"
    /\ \E args \in UpgradeArgs :
         res' = [op |-> "call_upgrade", self |-> args.self,
                 upgrade_height |-> args.upgrade_height,
                 upgrade_options |-> args.upgrade_options,
                 chain_id |-> args.chain_id,
                 out |-> upgrade(args.self, args.upgrade_height, args.upgrade_options, args.chain_id)]
    /\ UNCHANGED <<client_state, consensus_states, host_timestamp>>
    /\ UNCHANGED <<chan_store, applied>>

\* The client states ClientState::new accepts among its arguments above
ValidClientStates == {Unwrap(NewFrom(args).val) : args \in {a \in NewArgs : NewFrom(a).ok}}

\* A client state is encoded, and the raw state is decoded: as encoded, or
\* with the frozen height as another implementation writes it (absent, zero
\* or set)
CallEncodeDecode ==
    /\ res.op = "none"
    /\ \E value \in ValidClientStates :
         LET raw == RawTmClientState_from(value)
         IN  \E wire \in {raw} \cup {[raw EXCEPT !.frozen_height = fh] : fh \in {None, Some(RawHeight(0, 0)), Some(RawHeight(1, 1))}} :
                res' = [op |-> "encode_decode", value |-> value, raw |-> raw,
                        wire |-> wire, out |-> ClientState_try_from(wire)]
    /\ UNCHANGED <<client_state, consensus_states, host_timestamp>>
    /\ UNCHANGED <<chan_store, applied>>

\* Client states verify_height is called on, and the heights asked for
VerifyHeightArgs ==
    [latest_height : {Height(1, 2), Height(1, 3)},
     frozen_height : {None, Some(Height(0, 1)), Some(Height(1, 1)), Some(Height(1, 2)), Some(Height(1, 3)), Some(Height(2, 1))},
     height : {Height(0, 1), Height(1, 1), Height(1, 2), Height(1, 3), Height(2, 1), Height(2, 2)}]

CallVerifyHeight ==
    /\ res.op = "none"
    /\ \E args \in VerifyHeightArgs :
         LET self == [InitClientState EXCEPT !.latest_height = args.latest_height, !.frozen_height = args.frozen_height]
         IN  res' = [op |-> "call_verify_height", self |-> self, height |-> args.height,
                     out |-> HeightCheck(self, args.height)]
    /\ UNCHANGED <<client_state, consensus_states, host_timestamp>>
    /\ UNCHANGED <<chan_store, applied>>

\* The ways the public interface gives to obtain a CommitmentPrefix or a
\* CommitmentProofBytes, and their arguments
CommitmentCalls ==
    [way : {"CommitmentPrefix::try_from", "CommitmentProofBytes::try_from"}, arg : {<<>>, <<1>>, <<1, 2>>}]
    \cup [way : {"CommitmentProofBytes::try_from(RawMerkleProof)"}, arg : {[proofs |-> <<>>], [proofs |-> << <<>> >>], [proofs |-> << <<7>>, <<>> >>]}]
    \cup [way : {"CommitmentPrefix::default"}, arg : {<<>>}]

CallCommitment ==
    /\ res.op = "none"
    /\ \E call \in CommitmentCalls :
         res' = [op |-> "commitment", way |-> call.way, arg |-> call.arg,
                 out |-> CASE call.way = "CommitmentPrefix::try_from" -> CommitmentPrefix_try_from(call.arg)
                           [] call.way = "CommitmentProofBytes::try_from" -> CommitmentProofBytes_try_from(call.arg)
                           [] call.way = "CommitmentProofBytes::try_from(RawMerkleProof)" -> CommitmentProofBytes_try_from_raw(call.arg)
                           [] call.way = "CommitmentPrefix::default" -> Ok(CommitmentPrefix_default)]
    /\ UNCHANGED <<client_state, consensus_states, host_timestamp>>
    /\ UNCHANGED <<chan_store, applied>>

NextCalls ==
    \/ CallVerifyDelayPassed
    \/ CallVerify
    \/ CallNew
    \/ CallUpgrade
    \/ CallEncodeDecode
    \/ CallVerifyHeight
    \/ CallCommitment
    \/ HostDiscard

SpecCalls == Init /\ [][NextCalls]_vars

----------------------------------------------------------------------------
(* Properties.  While an outcome is pending (res.op # "none") the variables *)
(* client_state, consensus_states and host_timestamp still hold what the   *)
(* handler read, and res holds what it returned.                           *)

\* Lexicographic order on heights, written out
LexLT(a, b) ==
    \/ a.revision_number < b.revision_number
    \/ /\ a.revision_number = b.revision_number
       /\ a.revision_height < b.revision_height

LexLE(a, b) == a = b \/ LexLT(a, b)

UpdateDone == res.op = "update"
Hdr == res.headers[1]
Hh == [revision_number |-> Hdr.chain_id.version, revision_height |-> Hdr.revision_height]
StoredAtHeader == consensus_states[Hh]
FromHeader ==
    [timestamp |-> Hdr.time, root |-> Hdr.app_hash,
     next_validators_hash |-> Hdr.next_validators_hash]
TrustedStored == consensus_states[Hdr.trusted_height]

\* The verifier accepts the pending header against its trusted checkpoint
VerifierVerdict ==
    Verify(UntrustedBlockState(Hdr),
           TrustedBlockState(client_state, Hdr, Unwrap(TrustedStored)),
           [trust_threshold |-> client_state.trust_level,
            trusting_period |-> client_state.trusting_period,
            clock_drift |-> client_state.max_clock_drift],
           host_timestamp)

VerifierPasses == TrustedStored # None /\ VerifierVerdict = "Success"

\* An update the reader served, whose revision matches the client's
UpdateServed ==
    /\ UpdateDone
    /\ res.fault = "none"
    /\ Hdr.chain_id.version = client_state.chain_id.version

\* The pending update reached the monotonicity checks: nothing stored at the
\* header's height and the verifier accepted the header
UpdateVerifiedNew == UpdateServed /\ StoredAtHeader = None /\ VerifierPasses

\* C1: an accepted update returns a client state whose latest_height is not
\* below the input's, or one frozen at the header's height
C1_LatestHeightNeverRegresses ==
    (UpdateDone /\ res.ok) =>
        LET r == Unwrap(res.client_state)
        IN  \/ LexLE(client_state.latest_height, r.latest_height)
            \/ r.frozen_height = {Hh}

\* C2: verify_height(h) is Ok exactly when h <= latest_height and the client
\* is unfrozen or h < frozen_height, in the lexicographic order
C2_VerifyHeightIff ==
    res.op = "verify_height" =>
        LET h == Unwrap(res.height)
        IN  res.ok <=>
              /\ LexLE(h, client_state.latest_height)
              /\ \/ client_state.frozen_height = {}
                 \/ \E f \in client_state.frozen_height : LexLT(h, f)

C2_Witness ==
    /\ res.op = "verify_height"
    /\ res.height = client_state.frozen_height
    /\ res.err = "ClientFrozen"

\* C3: with a different consensus state stored at the header's height, the
\* client is frozen exactly when the verifier accepts the header: then the
\* result is the input client state frozen at the header's height, with the
\* stored consensus state; otherwise the call fails, with the verifier's
\* error when the verifier ran, and returns no client state
C3_ConflictFreezesIffVerified ==
    (UpdateServed /\ StoredAtHeader # None /\ StoredAtHeader # {FromHeader}) =>
        IF VerifierPasses
        THEN /\ res.ok
             /\ res.client_state = {[client_state EXCEPT !.frozen_height = {Hh}]}
             /\ res.consensus_state = StoredAtHeader
        ELSE /\ ~res.ok
             /\ res.client_state = {}
             /\ TrustedStored # None => res.err = VerifierVerdict

C3_Witness ==
    /\ UpdateServed
    /\ StoredAtHeader # None
    /\ StoredAtHeader # {FromHeader}
    /\ VerifierPasses
    /\ res.ok
    /\ client_state.frozen_height = {}

\* C4: applying an accepted header again, after the host stored the first
\* result, returns the same client state and consensus state, and storing
\* the second result changes nothing
C4_Idempotent ==
    (UpdateDone /\ res.ok) =>
        LET cs2 == StoreClientState(client_state, res)
            store2 == StoreConsensusState(consensus_states, res)
            r2 == check_header_and_update_state(cs2,
                      [consensus_states |-> store2,
                       host_timestamp |-> host_timestamp,
                       fault |-> res.fault], Hdr)
            o2 == Outcome("update", res.headers, None, res.fault, r2)
        IN  /\ r2.ok
            /\ r2.client_state = res.client_state
            /\ r2.consensus_state = res.consensus_state
            /\ StoreClientState(cs2, o2) = cs2
            /\ StoreConsensusState(store2, o2) = store2

C4_Witness ==
    /\ UpdateVerifiedNew
    /\ res.ok
    /\ Unwrap(res.client_state) # client_state

\* C5: when the consensus state stored at the header's height equals the one
\* derived from the header, the call returns the input client state as it
\* is and the stored consensus state, having made no call but the lookup
C5_ReplayReturnsInputUnchanged ==
    (UpdateServed /\ StoredAtHeader = {FromHeader}) =>
        /\ res.ok
        /\ res.client_state = {client_state}
        /\ res.consensus_state = StoredAtHeader
        /\ res.trace = <<"consensus_state(height)">>

C5_Witness ==
    /\ UpdateServed
    /\ StoredAtHeader = {FromHeader}
    /\ LexLT(client_state.latest_height, Hh)
    /\ res.ok

\* Stored neighbours of the header's height
IsNextStored(g) ==
    /\ consensus_states[g] # None
    /\ LexLT(Hh, g)
    /\ \A k \in Heights : consensus_states[k] # None /\ LexLT(Hh, k) => LexLE(g, k)

IsPrevStored(g) ==
    /\ consensus_states[g] # None
    /\ LexLT(g, Hh)
    /\ \A k \in Heights : consensus_states[k] # None /\ LexLT(k, Hh) => LexLE(k, g)

BelowNext ==
    LexLT(Hh, client_state.latest_height) =>
        \A g \in Heights : IsNextStored(g) =>
            \A c \in consensus_states[g] : Hdr.time <= c.timestamp

AbovePrev ==
    LexLT(Hdr.trusted_height, Hh) =>
        \A g \in Heights : IsPrevStored(g) =>
            \A c \in consensus_states[g] : Hdr.time >= c.timestamp

\* C6: a verified header with nothing stored at its height is accepted
\* exactly when its time is bracketed by its stored neighbours; a time above
\* the next one's fails with HeaderTimestampTooHigh, a time below the
\* previous one's with HeaderTimestampTooLow
C6_TimeBracketedByNeighbours ==
    UpdateVerifiedNew =>
        /\ res.ok <=> (BelowNext /\ AbovePrev)
        /\ ~BelowNext => res.err = "HeaderTimestampTooHigh"
        /\ (BelowNext /\ ~AbovePrev) => res.err = "HeaderTimestampTooLow"

C6_Witness ==
    /\ UpdateVerifiedNew
    /\ res.ok
    /\ LexLT(Hh, client_state.latest_height)
    /\ \E g \in Heights : IsNextStored(g)
    /\ \E g \in Heights : IsPrevStored(g)

\* C7: on the commit path the result is the input client state with
\* latest_height set to the header's height and nothing else changed, and
\* the consensus state derived from the header
C7_CommitSetsOnlyLatestHeight ==
    (UpdateVerifiedNew /\ res.ok) =>
        /\ res.client_state = {[client_state EXCEPT !.latest_height = Hh]}
        /\ res.consensus_state = {FromHeader}

C7_Witness ==
    /\ UpdateVerifiedNew
    /\ res.ok
    /\ client_state.frozen_height # {}
    /\ Hh # client_state.latest_height

\* C8: a header whose revision differs from the chain id's version fails
\* with MismatchedRevisions before any reader or verifier call
C8_MismatchedRevisionsFirst ==
    (UpdateDone /\ Hdr.chain_id.version # client_state.chain_id.version) =>
        /\ ~res.ok
        /\ res.err = "MismatchedRevisions"
        /\ res.trace = <<>>
        /\ res.client_state = {}

C8_Witness ==
    /\ UpdateDone
    /\ Hdr.chain_id.version # client_state.chain_id.version
    /\ res.fault = "consensus_state"
    /\ Hdr.trusted_height.revision_number = client_state.chain_id.version
    /\ res.err = "MismatchedRevisions"

MbDone == res.op = "misbehaviour"
H1 == res.headers[1]
H2 == res.headers[2]
SameHeight ==
    /\ H1.chain_id.version = H2.chain_id.version
    /\ H1.revision_height = H2.revision_height
IsFork == SameHeight /\ H1.block_hash # H2.block_hash
IsBftTimeViolation == ~SameHeight /\ H1.time <= H2.time

\* C9: the misbehaviour handler goes past its header-pair check exactly for
\* a fork or a BFT time violation; equal heights with equal block hashes fail
\* with MisbehaviourHeadersBlockHashesEqual, different heights with
\* header 1 later than header 2 with MisbehaviourHeadersNotAtSameHeight, both
\* before any consensus state is read
C9_HeaderPairCheck ==
    MbDone =>
        /\ (res.ok \/ res.trace # <<>>) <=> (IsFork \/ IsBftTimeViolation)
        /\ (SameHeight /\ H1.block_hash = H2.block_hash) =>
              /\ res.err = "MisbehaviourHeadersBlockHashesEqual"
              /\ res.trace = <<>>
        /\ (~SameHeight /\ H1.time > H2.time) =>
              /\ res.err = "MisbehaviourHeadersNotAtSameHeight"
              /\ res.trace = <<>>

C9_Witness ==
    /\ MbDone
    /\ IsBftTimeViolation
    /\ H1.time = H2.time
    /\ res.ok

\* C10: accepted misbehaviour returns the input client state with
\* frozen_height = (0, 1) and nothing else changed; a failed call returns an
\* error and no client state
C10_MisbehaviourFreezesAtZeroOne ==
    MbDone =>
        /\ res.ok =>
             res.client_state =
                 {[client_state EXCEPT
                     !.frozen_height = {[revision_number |-> 0, revision_height |-> 1]}]}
        /\ ~res.ok => (res.client_state = {} /\ res.err # "")

C10_Witness ==
    /\ MbDone
    /\ res.ok
    /\ IsFork
    /\ client_state.frozen_height = {}

\* The consensus state stored at a header's trusted height
TrustedOf(h) == consensus_states[h.trusted_height]
PairOk == IsFork \/ IsBftTimeViolation
BothTrustedStored == TrustedOf(H1) # {} /\ TrustedOf(H2) # {}
ChainIdAsExpected ==
    LET expected == [name |-> client_state.chain_id.name,
                     version |-> H1.chain_id.version]
    IN  H1.chain_id = expected /\ H2.chain_id = expected
ValHashMatches(h) ==
    \E cs \in TrustedOf(h) : cs.next_validators_hash = h.trusted_val_hash
WithinTrustingPeriod(h) ==
    \E cs \in TrustedOf(h) :
        /\ host_timestamp >= cs.timestamp
        /\ host_timestamp - cs.timestamp < client_state.trusting_period
AtOrPastTrustingPeriod(h) ==
    \E cs \in TrustedOf(h) :
        /\ host_timestamp >= cs.timestamp
        /\ host_timestamp - cs.timestamp >= client_state.trusting_period
ReachesHeaderChecks == MbDone /\ PairOk /\ BothTrustedStored /\ ChainIdAsExpected

\* C11: misbehaviour freezes the client only if each of the two headers
\* passes, against the consensus state stored at its own trusted height, the
\* validator-set hash check, the trusting-period check (host time minus the
\* trusted timestamp strictly below trusting_period) and the verifier's
\* commit check; the first header check to fail names the error
\* (MisbehaviourTrustedValidatorHashMismatch for the hash,
\* ConsensusStateTimestampGteTrustingPeriod at or past the trusting period)
C11_FreezeOnlyIfBothHeadersPass ==
    /\ (MbDone /\ res.ok) =>
          \A h \in {H1, H2} :
              ValHashMatches(h) /\ WithinTrustingPeriod(h) /\ h.sig_ok
    /\ ReachesHeaderChecks =>
          /\ ~ValHashMatches(H1) =>
                res.err = "MisbehaviourTrustedValidatorHashMismatch"
          /\ (ValHashMatches(H1) /\ AtOrPastTrustingPeriod(H1)) =>
                res.err = "ConsensusStateTimestampGteTrustingPeriod"
          /\ (\E h \in {H1, H2} : ~ValHashMatches(h) \/ AtOrPastTrustingPeriod(h)
                                   \/ ~h.sig_ok) => ~res.ok
          /\ (res.err = "MisbehaviourTrustedValidatorHashMismatch") =>
                (\E h \in {H1, H2} : ~ValHashMatches(h))
          /\ (res.err = "ConsensusStateTimestampGteTrustingPeriod") =>
                (\E h \in {H1, H2} : AtOrPastTrustingPeriod(h))

C11_Witness ==
    /\ MbDone
    /\ res.ok
    /\ H1.trusted_height # H2.trusted_height
    /\ host_timestamp - Unwrap(TrustedOf(H1)).timestamp
           = client_state.trusting_period - 1

C13_FrozenStaysFrozen ==
    [][/\ (client_state.frozen_height # {} /\ res.op # "upgrade")
           => client_state'.frozen_height # {}
       /\ (res.op \in {"update", "misbehaviour"} /\ res.client_state # {}
              /\ client_state.frozen_height # {})
           => \A cs \in res.client_state : cs.frozen_height # {}
       /\ (res.op = "upgrade" /\ client_state' # client_state)
           => client_state'.frozen_height = {}]_vars

C13_Witness ==
    /\ client_state.frozen_height # {}
    /\ res.op = "update"
    /\ res.ok
    /\ \E cs \in res.client_state :
          /\ cs.latest_height # client_state.latest_height
          /\ cs.frozen_height = client_state.frozen_height

\* C14: every proof verification against a client whose frozen_height is set
\* fails, whatever the proof height
C14_FrozenRefusesAllVerification ==
    (res.op = "verify_connection_state" /\ client_state.frozen_height # {})
        => ~res.ok

RecvDone == res.op = "recv_packet"
Pkt == res.msg.packet
ChanKey == <<Pkt.port_on_b, Pkt.chan_on_b>>
ChanFound == ChanKey \in DOMAIN chan_store.channels
ChanB == chan_store.channels[ChanKey]
ConnB == chan_store.connections[ChanB.connection_hops[1]]
ChannelOpen == ChanFound /\ ChanB.state = "Open"
CounterpartyMatches ==
    /\ ChanB.counterparty.port_id = Pkt.port_on_a
    /\ ChanB.counterparty.channel_id = {Pkt.chan_on_a}
ConnectionOpen == ConnB.state = "Open"
HeightTimeoutPending ==
    \A t \in Pkt.timeout_height_on_b : ~LexLT(t, chan_store.host_height)
TimestampTimeoutPending == host_timestamp < Pkt.timeout_timestamp_on_b
ReachesClient ==
    /\ RecvDone
    /\ ChannelOpen
    /\ CounterpartyMatches
    /\ ConnectionOpen
    /\ HeightTimeoutPending
    /\ TimestampTimeoutPending
ProofHeight == res.msg.proof_height_on_a
ProofConsensus == consensus_states[ProofHeight]
DelayPassed ==
    \E p \in chan_store.processed[ProofHeight] :
        /\ host_timestamp >= p.time + ConnB.delay_period
        /\ chan_store.host_height.revision_number >= p.height.revision_number
        /\ chan_store.host_height.revision_height
               >= p.height.revision_height + ConnB.delay_period
ProofVerifies ==
    /\ LexLE(ProofHeight, client_state.latest_height)
    /\ \A f \in client_state.frozen_height : LexLT(ProofHeight, f)
    /\ DelayPassed
    /\ \E cs \in ProofConsensus :
         /\ res.msg.proof_commitment_on_a.decodable
         /\ res.msg.proof_commitment_on_a.root = cs.root
         /\ res.msg.proof_commitment_on_a.merkle_path =
              <<ConnB.counterparty.prefix,
                <<"commitments", Pkt.port_on_a, Pkt.chan_on_a, Pkt.sequence>>>>
         /\ res.msg.proof_commitment_on_a.value =
              <<"commitment", Pkt.data, Pkt.timeout_height_on_b,
                Pkt.timeout_timestamp_on_b>>
ReachesBookkeeping ==
    /\ ReachesClient
    /\ client_state.frozen_height = {}
    /\ ProofConsensus # {}
    /\ ProofVerifies

\* C15: on an ordered channel, once the earlier checks passed and
\* next_seq_recv was read, a sequence above it fails with
\* InvalidPacketSequence, a sequence below it returns NoOp, and the sequence
\* equal to it returns Ordered for the packet's (port_on_b, chan_on_b) with
\* next_seq_recv one higher
C15_OrderedBookkeeping ==
    (ReachesBookkeeping /\ ChanB.ordering = "Ordered"
        /\ res.fault # "next_sequence_recv") =>
        /\ Pkt.sequence > chan_store.next_sequence_recv =>
             (~res.ok /\ res.err = "InvalidPacketSequence" /\ res.result = {})
        /\ Pkt.sequence < chan_store.next_sequence_recv =>
             (res.ok /\ res.result = {[kind |-> "NoOp"]})
        /\ Pkt.sequence = chan_store.next_sequence_recv =>
             /\ res.ok
             /\ res.result =
                  {[kind |-> "Ordered", port_id |-> Pkt.port_on_b,
                    channel_id |-> Pkt.chan_on_b,
                    next_seq_recv |-> chan_store.next_sequence_recv + 1]}

C15_Witness ==
    /\ ReachesBookkeeping
    /\ ChanB.ordering = "Ordered"
    /\ chan_store.next_sequence_recv = 2
    /\ Pkt.sequence = 2
    /\ res.ok
    /\ \E r \in res.result : r.kind = "Ordered"

\* C16: on an unordered channel, once the earlier checks passed, a stored
\* receipt for the packet's sequence returns NoOp, a receipt lookup that
\* reports PacketReceiptNotFound for that sequence returns Unordered with
\* receipt Ok for the sequence, and any other lookup error fails with
\* ImplementationSpecific
C16_UnorderedBookkeeping ==
    (ReachesBookkeeping /\ ChanB.ordering = "Unordered") =>
        /\ (res.fault # "packet_receipt"
              /\ Pkt.sequence \in chan_store.packet_receipts) =>
             (res.ok /\ res.result = {[kind |-> "NoOp"]})
        /\ (res.fault # "packet_receipt"
              /\ Pkt.sequence \notin chan_store.packet_receipts) =>
             /\ res.ok
             /\ res.result =
                  {[kind |-> "Unordered", port_id |-> Pkt.port_on_b,
                    channel_id |-> Pkt.chan_on_b, sequence |-> Pkt.sequence,
                    receipt |-> "Receipt::Ok"]}
        /\ res.fault = "packet_receipt" =>
             (~res.ok /\ res.err = "ImplementationSpecific" /\ res.result = {})

C16_Witness ==
    /\ ReachesBookkeeping
    /\ ChanB.ordering = "Unordered"
    /\ res.fault = "packet_receipt"
    /\ Pkt.sequence \in chan_store.packet_receipts
    /\ res.err = "ImplementationSpecific"

C18_StrictSequenceOrder ==
    [][/\ chan_store'.next_sequence_recv >= chan_store.next_sequence_recv
       /\ (chan_store'.next_sequence_recv # chan_store.next_sequence_recv
             \/ (applied' # applied /\ ChanB.ordering = "Ordered")) =>
            /\ RecvDone
            /\ res.ok
            /\ ChanB.ordering = "Ordered"
            /\ Pkt.sequence = chan_store.next_sequence_recv
            /\ chan_store'.next_sequence_recv = chan_store.next_sequence_recv + 1
            /\ applied' = applied \cup {res.msg}
            /\ res.msg \notin applied
       /\ (\E k \in DOMAIN chan_store.channels :
              chan_store.channels[k].ordering = "Ordered") =>
            /\ {m.packet.sequence : m \in applied}
                 = 1..(chan_store.next_sequence_recv - 1)
            /\ Cardinality(applied) = chan_store.next_sequence_recv - 1]_vars

C18_Witness ==
    /\ RecvDone
    /\ ChanFound
    /\ ChanB.ordering = "Ordered"
    /\ Cardinality(applied) = 1
    /\ chan_store.next_sequence_recv = 2
    /\ Pkt.sequence = 2
    /\ res.ok
    /\ \A m \in applied : m.packet.sequence = 1

\* C19: when the channel, counterparty, connection and timeout checks passed
\* and the client's frozen_height is set, recv_packet fails with
\* FrozenClient and returns no result, also when the frozen height is above
\* the proof height
C19_FrozenClientRejected ==
    (ReachesClient /\ client_state.frozen_height # {}) =>
        (~res.ok /\ res.err = "FrozenClient" /\ res.result = {}
           /\ res.events = <<>>)

C19_Witness ==
    /\ ReachesClient
    /\ \E f \in client_state.frozen_height : LexLT(ProofHeight, f)
    /\ DelayPassed
    /\ res.err = "FrozenClient"

\* The error of the first failing check of recv_packet, "" when none fails
\* before the sequence bookkeeping
FirstFailingCheck ==
    IF ~ChanFound THEN "ChannelNotFound"
    ELSE IF ChanB.state # "Open" THEN "InvalidChannelState"
    ELSE IF ~CounterpartyMatches THEN "InvalidPacketCounterparty"
    ELSE IF ~ConnectionOpen THEN "ConnectionNotOpen"
    ELSE IF ~HeightTimeoutPending THEN "LowPacketHeight"
    ELSE IF ~TimestampTimeoutPending THEN "LowPacketTimestamp"
    ELSE IF client_state.frozen_height # {} THEN "FrozenClient"
    ELSE IF ProofConsensus = {} THEN "ConsensusStateNotFound"
    ELSE IF ~ProofVerifies THEN "PacketVerificationFailed"
    ELSE ""

C21_LowPacketTimestamp ==
    (RecvDone /\ ChannelOpen /\ CounterpartyMatches /\ ConnectionOpen
        /\ HeightTimeoutPending) =>
        /\ host_timestamp >= Pkt.timeout_timestamp_on_b =>
             (~res.ok /\ res.err = "LowPacketTimestamp" /\ res.result = {})
        /\ res.err = "LowPacketTimestamp" =>
             host_timestamp >= Pkt.timeout_timestamp_on_b

C21_Witness ==
    /\ RecvDone
    /\ ChannelOpen
    /\ CounterpartyMatches
    /\ ConnectionOpen
    /\ HeightTimeoutPending
    /\ client_state.frozen_height = {}
    /\ host_timestamp = Pkt.timeout_timestamp_on_b
    /\ res.err = "LowPacketTimestamp"

\* C22: once the channel, counterparty and connection checks passed,
\* recv_packet fails with LowPacketHeight carrying the host height and the
\* packet's timeout height exactly when the timeout height is set and the
\* host height is past it; a packet without a timeout height never fails so
C22_LowPacketHeight ==
    (RecvDone /\ ChannelOpen /\ CounterpartyMatches /\ ConnectionOpen) =>
        /\ (\E t \in Pkt.timeout_height_on_b : LexLT(t, chan_store.host_height)) =>
             /\ ~res.ok
             /\ res.err = "LowPacketHeight"
             /\ res.cause = [chain_height |-> chan_store.host_height,
                             timeout_height |-> Pkt.timeout_height_on_b]
        /\ res.err = "LowPacketHeight" =>
             (\E t \in Pkt.timeout_height_on_b : LexLT(t, chan_store.host_height))
        /\ Pkt.timeout_height_on_b = {} => res.err # "LowPacketHeight"

C22_Witness ==
    /\ RecvDone
    /\ ChannelOpen
    /\ CounterpartyMatches
    /\ ConnectionOpen
    /\ Pkt.timeout_height_on_b # {}
    /\ ~TimestampTimeoutPending
    /\ res.err = "LowPacketHeight"

\* C23: a successful recv_packet call carries exactly one event, the
\* ReceivePacket of the message's packet, the channel's ordering and the
\* first connection hop, for a NoOp result too; a failing call carries no
\* event and no result
C23_OneReceivePacketEvent ==
    RecvDone =>
        /\ res.ok =>
             /\ res.result # {}
             /\ res.events =
                  <<[type |-> "ReceivePacket", packet |-> res.msg.packet,
                     ordering |-> ChanB.ordering,
                     connection_id |-> ChanB.connection_hops[1]]>>
        /\ ~res.ok => (res.events = <<>> /\ res.result = {} /\ res.err # "")

C23_Witness ==
    /\ RecvDone
    /\ res.ok
    /\ res.result = {[kind |-> "NoOp"]}
    /\ Len(res.events) = 1

\* C24: ClientState::verify_delay_passed passes exactly when the current time
\* is at or after processed_time + delay_period_time and the current height
\* is at or after processed_height + delay_period_blocks (equality passes in
\* both); a pass stays a pass for any later time and height; and when only
\* the block delay is missing the error is NotEnoughBlocksElapsed carrying
\* earliest_height = processed_height + delay_period_blocks.
C24_DelayPassedIff ==
    res.op = "verify_delay_passed" =>
        LET earliest_time == res.processed_time + res.delay_period_time
            earliest_height == Height(res.processed_height.revision_number, res.processed_height.revision_height + res.delay_period_blocks)
            time_ok == res.current_time >= earliest_time
            blocks_ok == ~LexLT(res.current_height, earliest_height)
        IN  /\ res.out.kind = "Ok" <=> (time_ok /\ blocks_ok)
            /\ res.out.kind = "Ok" =>
                  \A later \in DelayArgs :
                      (later.current_time >= res.current_time /\ ~LexLT(later.current_height, res.current_height))
                          => DelayCheck(later.current_time, later.current_height, res.processed_time, res.processed_height, res.delay_period_time, res.delay_period_blocks).kind = "Ok"
            /\ (time_ok /\ ~blocks_ok) =>
                  /\ res.out.kind = "NotEnoughBlocksElapsed"
                  /\ res.out.current_height = res.current_height
                  /\ res.out.earliest_height = earliest_height

\* The block delay alone is missing, at exactly the earliest time
C24_Witness ==
    /\ res.op = "verify_delay_passed"
    /\ res.out.kind = "NotEnoughBlocksElapsed"
    /\ res.current_time = res.processed_time + res.delay_period_time
    /\ res.delay_period_time > 0
    /\ res.out.earliest_height = Height(0, 4)
    /\ res.out.current_height = Height(0, 3)

\* The outcomes of evaluating a Merkle proof
MerkleOutcomes == {"Ok", "InvalidCommitmentProof", "Ics23Verification"}

\* The pending verification call would end the same whatever proof it is given
SameForEveryProof ==
    \A proof \in CallProofs(res.wrapper) :
        CallWrapper(res.wrapper, res.self, CallCtx(res.fault, res.processed_time, res.processed_height), res.height, proof, 1) = res.out

\* C25: each of the eight verifications checks verify_height(proof height)
\* first and returns its error without evaluating the Merkle proof; the four
\* packet verifications then check the connection delay with the processed
\* time and height looked up at the proof height, failing with
\* ProcessedTimeNotFound or ProcessedHeightNotFound when one is absent; only
\* after both pass is the proof evaluated.
C25_HeightThenDelayThenProof ==
    res.op = "verify" =>
        LET height_check == verify_height(res.self, res.height)
            packet == res.wrapper \in PacketWrappers
            host_ok == res.fault = "none"
            delay == DelayCheck(2, Height(1, 2), Unwrap(res.processed_time), Unwrap(res.processed_height), 1, 1).kind
        IN  /\ height_check # "Ok" => (res.out = height_check /\ SameForEveryProof)
            /\ (height_check = "Ok" /\ packet /\ host_ok /\ res.processed_time = None)
                  => (res.out = "ProcessedTimeNotFound" /\ SameForEveryProof)
            /\ (height_check = "Ok" /\ packet /\ host_ok /\ res.processed_time # None /\ res.processed_height = None)
                  => (res.out = "ProcessedHeightNotFound" /\ SameForEveryProof)
            /\ (height_check = "Ok" /\ packet /\ host_ok /\ res.processed_time # None /\ res.processed_height # None /\ delay # "Ok")
                  => (res.out = delay /\ SameForEveryProof)
            /\ (res.out \in MerkleOutcomes /\ ~SameForEveryProof)
                  => /\ height_check = "Ok"
                     /\ packet => (host_ok /\ res.processed_time # None /\ res.processed_height # None /\ delay = "Ok")
            /\ (height_check = "Ok" /\ ~packet) => (res.out \in MerkleOutcomes /\ ~SameForEveryProof)

\* A packet verification with a proof that would verify stops at the missing
\* processed height, on a client that passes verify_height
C25_Witness ==
    /\ res.op = "verify"
    /\ res.wrapper = "verify_packet_receipt_absence"
    /\ verify_height(res.self, res.height) = "Ok"
    /\ res.processed_time # None
    /\ res.processed_height = None
    /\ res.out = "ProcessedHeightNotFound"
    /\ res.proof = ProofOf(TRUE, 1, apply_prefix("ibc", WrapperPath(res.wrapper)), Absent)

\* The validity rules of a Tendermint client state
ValidClientState(cs) ==
    /\ 0 < cs.trusting_period
    /\ cs.trusting_period < cs.unbonding_period
    /\ cs.trust_level.denominator > 0
    /\ 3 * cs.trust_level.numerator >= cs.trust_level.denominator
    /\ cs.trust_level.numerator < cs.trust_level.denominator
    /\ cs.max_clock_drift > 0
    /\ cs.chain_id.version = cs.latest_height.revision_number
    /\ ChainIdLen(cs.chain_id) <= 50
    /\ Len(cs.proof_specs) > 0
    /\ \A i \in 1..Len(cs.upgrade_path) : cs.upgrade_path[i] \notin {"", " ", "  "}

\* C26: every client state accepted by ClientState::new has
\* 0 < trusting_period < unbonding_period, a trust level in [1/3, 1), a
\* positive max_clock_drift, chain_id.version = latest_height.revision_number,
\* a chain id of at most 50 characters, non-empty proof specs and no blank
\* upgrade-path entry.
C26_AcceptedStateIsValid ==
    (res.op = "new" /\ res.out.ok) => ValidClientState(Unwrap(res.out.val))

\* A 50-character chain id with an upgrade path is accepted
C26_Witness ==
    /\ res.op = "new"
    /\ res.out.ok
    /\ ChainIdLen(res.args.chain_id) = 50
    /\ Len(res.args.upgrade_path) = 2
    /\ res.args.trust_level = [numerator |-> 2, denominator |-> 3]

\* C27: upgrade sets trusting_period, trust_level and max_clock_drift to
\* zero and both allow_update flags to false, clears frozen_height, adopts
\* the upgrade height as latest_height, the options' unbonding_period and
\* the given chain_id, and leaves proof_specs and upgrade_path unchanged;
\* the resulting state is not one the constructor accepts.
C27_UpgradeFrame ==
    res.op = "call_upgrade" =>
        /\ res.out.trusting_period = 0
        /\ res.out.trust_level = [numerator |-> 0, denominator |-> 0]
        /\ res.out.max_clock_drift = 0
        /\ res.out.allow_update = [after_expiry |-> FALSE, after_misbehaviour |-> FALSE]
        /\ res.out.frozen_height = {}
        /\ res.out.latest_height = res.upgrade_height
        /\ res.out.unbonding_period = res.upgrade_options.unbonding_period
        /\ res.out.chain_id = res.chain_id
        /\ res.out.proof_specs = res.self.proof_specs
        /\ res.out.upgrade_path = res.self.upgrade_path
        /\ DOMAIN res.out = DOMAIN res.self
        /\ ~NewFrom(res.out).ok

\* A frozen client the constructor accepts is upgraded to a new chain id,
\* height and unbonding period
C27_Witness ==
    /\ res.op = "call_upgrade"
    /\ res.self.frozen_height # {}
    /\ res.self.latest_height # res.upgrade_height
    /\ res.self.chain_id # res.chain_id
    /\ res.self.unbonding_period # res.upgrade_options.unbonding_period
    /\ res.out.frozen_height = {}
    /\ NewFrom(res.self).ok

\* C29: decoding the raw encoding of a valid client state yields that client
\* state; frozen_height None is encoded as the raw height {0,0} and a raw
\* {0,0} decodes to None; a set frozen height and the allow_update booleans
\* come back as they were.
C29_RawRoundTrip ==
    res.op = "encode_decode" =>
        /\ res.wire = res.raw => (res.out.ok /\ res.out.val = {res.value})
        /\ res.value.frozen_height = {} <=> res.raw.frozen_height = {[revision_number |-> 0, revision_height |-> 0]}
        /\ \A h \in res.value.frozen_height : res.raw.frozen_height = {h}
        /\ res.wire.frozen_height = {[revision_number |-> 0, revision_height |-> 0]}
              => (res.out.ok /\ \A cs \in res.out.val : cs.frozen_height = {})
        /\ res.raw.allow_update_after_expiry = res.value.allow_update.after_expiry
        /\ res.raw.allow_update_after_misbehaviour = res.value.allow_update.after_misbehaviour
        /\ res.out.ok => \A cs \in res.out.val : cs.allow_update = res.value.allow_update

\* An unfrozen client state allowing updates after expiry went through its
\* raw form
C29_Witness ==
    /\ res.op = "encode_decode"
    /\ res.wire = res.raw
    /\ res.value.frozen_height = {}
    /\ res.value.allow_update.after_expiry
    /\ res.out.ok
    /\ res.out.val = {res.value}

\* C30: verify_height(h) with h above latest_height fails with
\* InsufficientHeight{latest_height, target_height = h}, also when the client
\* is frozen at or below h; with h at or below latest_height and a
\* frozen_height at or below h it fails with
\* ClientFrozen{frozen_height, target_height = h}.
C30_VerifyHeightErrors ==
    res.op = "call_verify_height" =>
        /\ LexLT(res.self.latest_height, res.height)
              => res.out = [kind |-> "InsufficientHeight", latest_height |-> res.self.latest_height, target_height |-> res.height]
        /\ \A frozen \in res.self.frozen_height :
              (LexLE(res.height, res.self.latest_height) /\ LexLE(frozen, res.height))
                 => res.out = [kind |-> "ClientFrozen", frozen_height |-> frozen, target_height |-> res.height]

\* A client frozen below the height asked for, which is above its latest
C30_Witness ==
    /\ res.op = "call_verify_height"
    /\ res.self.frozen_height = {Height(1, 1)}
    /\ res.self.latest_height = Height(1, 2)
    /\ res.height = Height(1, 3)
    /\ res.out.kind = "InsufficientHeight"

\* The first rule of the constructor its arguments violate, in the order the
\* constructor evaluates them ("none" when they violate none)
FirstViolatedRule(a) ==
    CASE ChainIdLen(a.chain_id) > 50 -> "chain_id_length"
      [] a.trust_level = [numerator |-> 0, denominator |-> 0] -> "trust_level_zero"
      [] \/ a.trust_level.denominator = 0
         \/ 3 * a.trust_level.numerator < a.trust_level.denominator
         \/ a.trust_level.numerator >= a.trust_level.denominator -> "trust_level_range"
      [] a.trusting_period = 0 -> "trusting_period_zero"
      [] a.unbonding_period = 0 -> "unbonding_period_zero"
      [] a.trusting_period >= a.unbonding_period -> "trusting_not_below_unbonding"
      [] a.max_clock_drift = 0 -> "max_clock_drift"
      [] a.latest_height.revision_number # a.chain_id.version -> "latest_height_revision"
      [] a.proof_specs = <<>> -> "proof_specs"
      [] \E i \in 1..Len(a.upgrade_path) : a.upgrade_path[i] \in {"", " ", "  "} -> "upgrade_path"
      [] OTHER -> "none"

\* The error kind of each rule; an out-of-range trust level has the kind
\* given as out_of_range
KindOfRule(rule, out_of_range) ==
    CASE rule = "chain_id_length" -> "ChainIdTooLong"
      [] rule = "trust_level_range" -> out_of_range
      [] rule \in {"trust_level_zero", "trusting_period_zero", "unbonding_period_zero", "trusting_not_below_unbonding"} -> "InvalidTrustThreshold"
      [] rule = "max_clock_drift" -> "InvalidMaxClockDrift"
      [] rule = "latest_height_revision" -> "InvalidLatestHeight"
      [] rule \in {"proof_specs", "upgrade_path"} -> "Validation"
      [] OTHER -> ""

\* C31 as stated: the first violated rule decides the error kind of
\* ClientState::new, an out-of-range trust level giving InvalidTrustThreshold
C31_OutOfRangeIsInvalidTrustThreshold ==
    res.op = "new" =>
        /\ res.out.ok <=> FirstViolatedRule(res.args) = "none"
        /\ res.out.err = KindOfRule(FirstViolatedRule(res.args), "InvalidTrustThreshold")

\* C31 (amended): ClientState::new fails with the error kind of the first
\* rule its arguments violate, in evaluation order: ChainIdTooLong for a
\* chain id over 50 bytes; InvalidTrustThreshold for a zero trust level, a
\* zero trusting or unbonding period, or trusting_period >= unbonding_period;
\* InvalidTendermintTrustThreshold for a non-zero trust level outside
\* [1/3, 1); InvalidMaxClockDrift; InvalidLatestHeight; Validation for empty
\* proof specs or a blank upgrade-path key.
C31_FirstViolatedRuleDecides ==
    res.op = "new" =>
        /\ res.out.ok <=> FirstViolatedRule(res.args) = "none"
        /\ res.out.err = KindOfRule(FirstViolatedRule(res.args), "InvalidTendermintTrustThreshold")

\* A trust level of 1/4 together with a zero clock drift and a latest height
\* of another revision: the trust level decides
C31_Witness ==
    /\ res.op = "new"
    /\ res.args.trust_level = [numerator |-> 1, denominator |-> 4]
    /\ res.args.max_clock_drift = 0
    /\ res.args.latest_height.revision_number # res.args.chain_id.version
    /\ ChainIdLen(res.args.chain_id) <= 50
    /\ res.out.err = "InvalidTendermintTrustThreshold"

\* C32: every CommitmentPrefix and every CommitmentProofBytes value holds
\* non-empty bytes: construction from an empty byte vector fails with
\* EmptyCommitmentPrefix and EmptyMerkleProof respectively, and no other way
\* of obtaining a value yields empty bytes.
C32_CommitmentBytesNonEmpty ==
    res.op = "commitment" =>
        /\ (res.way = "CommitmentPrefix::try_from" /\ res.arg = <<>>)
              => (~res.out.ok /\ res.out.err = "EmptyCommitmentPrefix")
        /\ (res.way = "CommitmentProofBytes::try_from" /\ res.arg = <<>>)
              => (~res.out.ok /\ res.out.err = "EmptyMerkleProof")
        /\ \A value \in res.out.val : Len(value.bytes) > 0

\* C33 as stated, its last part: a missing consensus state at
\* header.trusted_height always aborts the update with an error
C33_MissingTrustedAlwaysAborts ==
    (UpdateDone /\ TrustedStored = None) => ~res.ok

\* C33 (amended): at header.height a not-found is "no state installed" and
\* the update goes on to the trusted checkpoint and the verifier, while any
\* other reader error aborts the update with that error; a missing consensus
\* state at header.trusted_height aborts the update with an error unless the
\* state stored at header.height equals the header's, which is returned
\* before the trusted state is looked up.
C33_NotFoundVersusBackendFailure ==
    (UpdateDone /\ Hdr.chain_id.version = client_state.chain_id.version) =>
        /\ res.fault = "consensus_state"
              => (~res.ok /\ res.err = "Other" /\ res.trace = <<"consensus_state(height)">>)
        /\ (res.fault = "none" /\ StoredAtHeader = None)
              => /\ Len(res.trace) >= 2
                 /\ res.trace[2] = "consensus_state(trusted_height)"
                 /\ TrustedStored # None => (Len(res.trace) >= 4 /\ res.trace[4] = "verify")
        /\ (res.fault = "none" /\ TrustedStored = None /\ StoredAtHeader # {FromHeader})
              => (~res.ok /\ res.err = "ConsensusStateNotFound")
        /\ (res.fault = "none" /\ TrustedStored = None /\ StoredAtHeader = {FromHeader})
              => res.ok

\* Nothing stored at the header's height nor at its trusted height: the
\* first lookup is taken for "not installed", the second aborts the update
C33_Witness ==
    /\ UpdateDone
    /\ Hdr.chain_id.version = client_state.chain_id.version
    /\ res.fault = "none"
    /\ StoredAtHeader = None
    /\ TrustedStored = None
    /\ res.err = "ConsensusStateNotFound"
    /\ res.trace = <<"consensus_state(height)", "consensus_state(trusted_height)">>

\* The result of the ClientReader entry point on the store and header of a
\* pending ValidationContext update
LegacyResult == check_header_and_update_state(client_state, Ctx(res.fault), Hdr)

\* C34: on the same reader contents and header, new_check_header_and_update_state
\* and check_header_and_update_state return the same updated state, the same
\* freeze, or an error of the same kind, also when no consensus state is
\* stored at header.height
C34_EntryPointsEquivalent ==
    res.op = "new_update" =>
        /\ res.ok = LegacyResult.ok
        /\ res.err = LegacyResult.err
        /\ res.client_state = LegacyResult.client_state
        /\ res.consensus_state = LegacyResult.consensus_state

\* C35: the stored consensus states have timestamps non-decreasing in
\* height, whatever updates were accepted and persisted, in whatever order
C35_StoredTimestampsMonotonic ==
    \A h1 \in DOMAIN consensus_states, h2 \in DOMAIN consensus_states :
        (HeightLT(h1, h2) /\ consensus_states[h1] # None /\ consensus_states[h2] # None)
            => Unwrap(consensus_states[h1]).timestamp <= Unwrap(consensus_states[h2]).timestamp

\* C36: consensus states are write-once. A stored consensus state is never
\* replaced by a different one; an update result for a height that has a
\* stored state carries that stored state (matching shortcut and conflict
\* freeze alike), and the header-derived state is returned only for a height
\* with no stored state.
C36_ConsensusStatesWriteOnce ==
    [][/\ (UpdateDone /\ res.ok) =>
             res.consensus_state =
                 (IF StoredAtHeader # None THEN StoredAtHeader ELSE Some(FromHeader))
       /\ \A h \in DOMAIN consensus_states :
             consensus_states[h] # None => consensus_states'[h] = consensus_states[h]]_vars

\* A verified header conflicting with the state stored at its height: the
\* result carries the stored state, not the header's
C36_Witness ==
    /\ UpdateDone
    /\ res.ok
    /\ StoredAtHeader # None
    /\ StoredAtHeader # Some(FromHeader)
    /\ res.consensus_state = StoredAtHeader

\* C37: a height that verify_height rejects with ClientFrozen stays rejected
\* whatever update and misbehaviour results are applied afterwards: neither
\* raises nor removes an existing frozen_height
C37_FrozenHeightStaysRejected ==
    [][res.op \in {"update", "misbehaviour"} =>
          \A h \in Heights :
              verify_height(client_state, h) = "ClientFrozen"
                  => verify_height(client_state', h) # "Ok"]_vars

\* The chain id's version equals the revision of the latest height
RevisionAligned(cs) == cs.chain_id.version = cs.latest_height.revision_number

\* C38: chain_id.version = latest_height.revision_number is kept by every
\* accepted header update, conflict freeze and misbehaviour freeze: the
\* returned client state, and the stored one once it is applied, have it
\* whenever the state the operation ran on had it
C38_RevisionAlignedPreserved ==
    [][(res.op \in {"update", "misbehaviour"} /\ res.ok /\ RevisionAligned(client_state)) =>
          /\ RevisionAligned(Unwrap(res.client_state))
          /\ RevisionAligned(client_state')]_vars

\* An aligned client frozen by a conflicting header at its revision
C38_Witness ==
    /\ UpdateDone
    /\ res.ok
    /\ RevisionAligned(client_state)
    /\ client_state.frozen_height = None
    /\ Unwrap(res.client_state).frozen_height = Some(Hh)
    /\ Hh.revision_number = client_state.chain_id.version

\* C39: in the client state returned by a successful
\* check_misbehaviour_and_update_state, verify_height fails for every height:
\* with InsufficientHeight above latest_height, with ClientFrozen for all others
C39_MisbehaviourFreezesEveryHeight ==
    (MbDone /\ res.ok) =>
        /\ Unwrap(res.client_state).frozen_height = Some(Height(0, 1))
        /\ \A h \in Heights :
              verify_height(Unwrap(res.client_state), h) =
                  (IF HeightLT(Unwrap(res.client_state).latest_height, h)
                   THEN "InsufficientHeight" ELSE "ClientFrozen")

\* A successful misbehaviour check on a client whose latest height has heights
\* of a lower revision, lower heights of its own revision, and higher ones
C39_Witness ==
    /\ MbDone
    /\ res.ok
    /\ verify_height(Unwrap(res.client_state), Height(0, MaxHeight)) = "ClientFrozen"
    /\ verify_height(Unwrap(res.client_state), Height(1, 1)) = "ClientFrozen"
    /\ verify_height(Unwrap(res.client_state), Height(1, MaxHeight)) = "InsufficientHeight"

====
